---- MODULE Spec2Model ----
(***************************************************************************)
(* Aethon voice pipeline: the orchestrator thread (AethonPipeline.run),    *)
(* the Response Engine (_respond_streaming) with its TTS worker, Playback  *)
(* worker and barge-in monitor, the LLM handle with its conversation       *)
(* history, and the HTTP handlers /command and /speak that share the LLM   *)
(* mutex with the orchestrator.                                            *)
(*                                                                         *)
(* Threads are interleaved at the granularity of their blocking calls and  *)
(* of their reads of the shared flags.  A queue.Queue.put without timeout  *)
(* is an action enabled only while the queue has room; a get is enabled    *)
(* only while the queue holds an item.  A timed wait (join(timeout=10),    *)
(* Lock.acquire(timeout=1.0), Queue.get(timeout=2.0)) may expire only in   *)
(* a state where the awaited party is blocked or inside an operation that  *)
(* takes real time (network, synthesis, playback).                         *)
(***************************************************************************)
EXTENDS Naturals, Integers, Sequences, FiniteSets

\* ---------------------------------------------------------------- bounds
\* Turns the orchestrator may start (voice, text or continuation).
MaxTurns == 1
\* Sentences one LLM stream may yield.
MaxSentences == 2
\* HTTP requests (/command and /speak together) the environment sends.
MaxRequests == 2
\* /command requests sent in a row when only the history is followed.
MaxHistory == 22
\* User messages in the history that no assistant message follows.
MaxFailed == 3
\* Chunks one call of _collect_speech reads.
MaxCollect == 14
\* Chunks the Gemini streams of one generate_stream call deliver.
MaxChunks == 8
\* Sentences of one answer, and tokens of one sentence, when the TTS requests
\* made from an answer are followed.
MaxAnswer == 2
MaxTokens == 3
\* Gain updates the AGC computes.
MaxUpdates == 3
\* Fragments of one LLM stream when the segmenter is followed.
MaxFragments == 5
\* Chunks a playback iterator yields beyond the capacity of the buffer.
MaxOverfill == 1
\* Blocks of the device in the longest chunk.
MaxBlocks == 2
\* Threads that call a playback method.
MaxPlayers == 3
\* Chunks of the short playback iterators.
MaxShortStream == 3
MaxStarters == 3
MaxUtterances == 2
\* Capacity of tts_queue and audio_queue (queue.Queue(maxsize=8) in the
\* source, scaled down; every blocking case only needs a full queue).
QueueCap == 1

\* ------------------------------------------------------- program constants
\* OllamaLLM._trim_history(max_turns=20)
max_turns == 20

Turns == 1..(MaxTurns + 1)
Players == 1..MaxPlayers
Starters == 1..MaxStarters
\* The end-of-stream marker of both queues (_SENTINEL = None).
SENTINEL == 0
\* Qualifying chunks in a row that confirm a barge-in.
required_chunks == 10
\* Chunks ignored after the monitor sees the playback start.
playback_warmup == 10

VARIABLES
    \* AethonPipeline: flags
    running,        \* self._running
    stop_event,     \* self._stop_event
    barge_in,       \* self._barge_in_detected
    response_done,  \* self._response_done
    barge_audio,    \* self._barge_in_audio is non-empty
    api_alive,      \* the "api-server" thread is running
    \* orchestrator thread
    pc,             \* where the orchestrator thread is
    kind,           \* the turn it runs: "voice", "text" or "cont"
    turn,           \* number of _respond_streaming calls so far
    emitted,        \* full_response of the running/last turn is non-empty
    hist_before,    \* the conversation before the running turn's add_user_message
    pstate,         \* last state passed to on_state_change
    \* LLM handle (OllamaLLM), protected by self._llm_lock
    llm_lock,       \* "free" or the holder: "orch", "cmd", "speak"
    conversation,   \* roles of self.llm.conversation
    gst,            \* generator of the running generate_stream call
    nsent,          \* sentences that generator has yielded
    cancel_event,   \* self.llm._cancel_event
    current_response, \* self.llm._current_response is non-empty
    \* per-turn queues and workers of _respond_streaming
    tts_queue, audio_queue,
    tts_pc,
    tts_item,       \* the segment the TTS worker holds (0: none)
    aud_pc,
    mon_pc,
    \* AudioManager
    stop_playback,  \* self._stop_playback
    is_playing,     \* self._is_playing
    play_lock,      \* self._play_lock: 0 free, else the turn of the holder
    \* HTTP handlers (AethonAPIServer)
    cmd_pc, cmd_status,
    speak_pc, speak_status,
    nreq,
    \* locals of _monitor_barge_in, one set per monitor thread
    consecutive_speech, \* also len(speech_chunks): appended and cleared together
    warmup_counter,     \* counted up to playback_warmup + 1
    was_playing,
    \* history variables: what happened, recorded beside the program's state
    obs_played,     \* chunks each monitor read in the current playback
    obs_streak,     \* latest run of qualifying chunks read past the warm-up
    last_segment    \* last segment each TTS worker put on its audio_queue

flagVars == <<running, stop_event, barge_in, response_done, barge_audio, api_alive>>
orchVars == <<pc, kind, turn, emitted, hist_before, pstate>>
llmVars  == <<llm_lock, conversation, gst, nsent, cancel_event, current_response>>
workVars == <<tts_queue, audio_queue, tts_pc, tts_item, aud_pc, mon_pc>>
playVars == <<stop_playback, is_playing, play_lock>>
apiVars  == <<cmd_pc, cmd_status, speak_pc, speak_status, nreq>>
monVars  == <<consecutive_speech, warmup_counter, was_playing>>
obsVars  == <<obs_played, obs_streak, last_segment>>
pipeVars == <<flagVars, orchVars, llmVars, workVars, playVars, apiVars, monVars, obsVars>>

\* Components followed on their own: one call of _collect_speech.
VARIABLES
    cs_pc,          \* where the call is: "none", "loop", "test", "done"
    cs_len,         \* len(chunks)
    speech_ms,
    silence_ms,
    cs_result,      \* what the call returned: "none", "None" or "audio"
    min_speech,     \* config.audio.min_speech_ms
    obs_speech      \* history: chunks counted as speech, initial ones included

collectVars == <<cs_pc, cs_len, speech_ms, silence_ms, cs_result, min_speech, obs_speech>>

\* One call of GeminiLLM.generate_stream with its tool rounds.
VARIABLES
    gm_pc,          \* "idle", "stream" (a request is being read), "done"
    gm_depth,       \* depth of the _execute_and_continue frame (0 in generate_stream)
    gm_in_tool,     \* the stream read is the one _execute_and_continue opened
    gm_chunks,      \* chunks read from the streams of this call
    gm_last,        \* the last thing yielded: "none", "text", "refusal", "error"
    gm_pending,     \* pending_calls of generate_stream is non-empty
    gm_executor,    \* self._tool_executor is set
    gm_rounds       \* history: rounds in which the tool executor was invoked

toolVars ==
    <<gm_pc, gm_depth, gm_in_tool, gm_chunks, gm_last, gm_pending,
      gm_executor, gm_rounds>>

\* The sentences of one LLM answer, and the TTS requests made from them.
VARIABLES
    sp_sentences,   \* what generate_stream yielded
    sp_seg_q,       \* (prepared, preset) the orchestrator put on tts_queue
    sp_prod_i,      \* sentences the orchestrator's loop has handled
    sp_tts_calls,   \* (prepared, preset) /speak passed to synthesize_stream
    sp_speak_i      \* sentences the synthesis loop of /speak has handled

speakVars == <<sp_sentences, sp_seg_q, sp_prod_i, sp_tts_calls, sp_speak_i>>

\* AudioManager: the capture callback and its AGC.
VARIABLES
    agc_gain,       \* self._agc_gain, in thousandths
    agc_rms_sum,    \* self._agc_rms_sum, in units of 0.0001
    agc_count,      \* self._agc_count
    input_gain,     \* config.input_gain, in thousandths
    auto_gain,      \* config.auto_gain
    capture_in,     \* a sample (magnitude) of the last chunk the driver delivered
    rms_in,         \* the RMS of that chunk after the manual gain, in 0.0001
    capture_last,   \* that sample as put on capture_queue
    agc_updates,    \* history: gain updates computed
    obs_accepted    \* history: chunks above the silence level since the last update

agcVars ==
    <<agc_gain, agc_rms_sum, agc_count, input_gain, auto_gain,
      capture_in, rms_in, capture_last, agc_updates, obs_accepted>>

\* The sentence segmenter of generate_stream.
VARIABLES
    sg_buffer,      \* buffer
    sg_text,        \* full_text: every fragment received
    sg_out,         \* the segments yielded so far
    sg_pc,          \* "feed" while the stream is read, "done" after it
    sg_backend,     \* whose generate_stream runs: "gemini" or "ollama"
    sg_n,           \* fragments received
    sg_how,         \* history: what the last fragment made the segmenter
                    \* yield: "none", "sentence" or "early"
    sg_calls        \* pending_calls is not empty

segVars == <<sg_buffer, sg_text, sg_out, sg_pc, sg_backend, sg_n, sg_how,
             sg_calls>>
\* Components followed on their own: one call of play_audio_stream.
VARIABLES
    ps_pc,          \* the calling thread: "idle", "feed", "drain", "done"
    ps_chunks,      \* the chunks iterator: the length of each chunk in blocks
    ps_next,        \* chunks taken from the iterator so far
    ps_buf,         \* buf: the items queued, each a sequence of blocks
    ps_finished,    \* finished
    ps_active,      \* stream.active
    ps_cb,          \* _callback: "idle", or "put" between its get and its put
    ps_data,        \* data[frames:] while _callback is at "put"
    ps_out          \* history: the blocks written to outdata, in order

streamVars == <<ps_pc, ps_chunks, ps_next, ps_buf, ps_finished, ps_active,
                ps_cb, ps_data, ps_out>>

\* Playback calls that overlap.
VARIABLES
    ov_pc           \* per caller: "idle", "wait", "feeding", "finally", "done"

overlapVars == <<ov_pc>>

\* PipelineBridge.stop() running in the server's threads.
VARIABLES
    bs_pc           \* "idle", "join", "stop", "stop2", "done"

bridgeStopVars == <<bs_pc>>

\* WhisperWakeDetector.
VARIABLES
    wk_state,       \* _state: "IDLE" or "COLLECTING"
    wk_len,         \* len(_speech_chunks)
    wk_speech_ms,   \* _speech_ms
    wk_silence_ms,  \* _silence_ms
    wk_enabled,     \* persona.wake_enabled
    wk_models,      \* set_shared_models has injected the transcriber and VAD
    wk_ret,         \* what the last detect returned
    wk_how,         \* history: the branch the last detect took
    wk_tr_speech,   \* history: _speech_ms the last detect transcribed with
    wk_run          \* history: consecutive calls that ended in COLLECTING

wakeVars == <<wk_state, wk_len, wk_speech_ms, wk_silence_ms, wk_enabled,
              wk_models, wk_ret, wk_how, wk_tr_speech, wk_run>>

\* PipelineBridge.start(), called by several coroutines of the event loop.
VARIABLES
    st_pc,          \* per call: "idle", "set_loading", "load_all", "failing",
                    \* "done"
    st_how,         \* per call: how it ended
    st_lock_made,   \* _start_lock is not None
    st_lock,        \* the call holding _start_lock, 0 if it is free
    st_pipeline,    \* the call that made _pipeline, 0 for None
    st_thread,      \* the call that made _thread, 0 for None
    st_alive,       \* the pipeline threads alive, named by their call
    st_built,       \* history: the calls that constructed an AethonPipeline
    st_started,     \* history: the calls that started a thread
    st_overlap      \* history: the pairs of calls that overlapped in time

startVars == <<st_pc, st_how, st_lock_made, st_lock, st_pipeline, st_thread,
               st_alive, st_built, st_started, st_overlap>>

\* The _active event: run() and the /wake handler.
VARIABLES
    ac_pc,          \* run(): "prologue", "loop", "check", "detect",
                    \* "collect", "stopped"
    ac_active,      \* _active.is_set()
    ac_enabled,     \* config.persona.wake_enabled
    ac_running,     \* _running
    hw_pc,          \* _handle_wake: "idle", "set"
    hw_was,         \* was_active
    hw_status,      \* the status of the last answer of /wake
    ac_seen,        \* history: run() has found _active set
    ac_late,        \* history: calls of detect made while _active was set
    ac_utt          \* history: utterances collected

activeVars == <<ac_pc, ac_active, ac_enabled, ac_running, hw_pc, hw_was,
                hw_status, ac_seen, ac_late, ac_utt>>

lateVars == <<wakeVars, startVars, activeVars>>

coreVars == <<collectVars, toolVars, speakVars, agcVars, segVars>>
extraVars == <<streamVars, overlapVars, bridgeStopVars, lateVars>>
compVars == <<coreVars, extraVars>>

vars == <<pipeVars, compVars>>

\* ------------------------------------------------------------ LLM handle

\* OllamaLLM._trim_history: keep the system prompt and the last 2*max_turns.
trim_history(conv) ==
    IF Len(conv) <= 1 + max_turns * 2 THEN conv
    ELSE <<conv[1]>> \o SubSeq(conv, Len(conv) - max_turns * 2 + 1, Len(conv))

\* OllamaLLM.add_user_message
add_user_message(conv) == Append(conv, "user")

\* OllamaLLM.pop_last_user_message
pop_last_user_message(conv) ==
    IF Len(conv) > 0 /\ conv[Len(conv)] = "user"
    THEN SubSeq(conv, 1, Len(conv) - 1) ELSE conv

\* The tail of generate_stream, run when the generator is resumed after its
\* last yield: the assistant turn is appended only if the stream produced text
\* and cancel() was not called, then the history is trimmed.
generate_stream_end(conv, produced, cancelled) ==
    trim_history(IF produced /\ ~cancelled THEN Append(conv, "assistant") ELSE conv)

LastRole(conv) == IF Len(conv) = 0 THEN "none" ELSE conv[Len(conv)]


\* ------------------------------------------------------- _collect_speech

\* AudioConfig defaults.
chunk_duration_ms == 32
silence_timeout_ms == 500
min_speech_ms == 300
\* get_audio_chunk(timeout=0.15) returning None counts 150 ms of silence.
get_timeout_ms == 150

\* Values of config.audio.min_speech_ms: the default, and one above the
\* length of a barge-in buffer (required_chunks chunks).
MinSpeechChoices == {min_speech_ms, (required_chunks + 1) * chunk_duration_ms}

\* No call of _collect_speech is running.
collect_rest ==
    /\ cs_pc = "none" /\ cs_len = 0 /\ speech_ms = 0 /\ silence_ms = 0
    /\ cs_result = "none" /\ obs_speech = 0

\* What a step of _collect_speech leaves alone.
collectFrame ==
    <<flagVars, kind, turn, emitted, hist_before, pc, llmVars, workVars,
      playVars, apiVars, monVars, obsVars, min_speech,
      toolVars, speakVars, agcVars, segVars, extraVars>>

\* _collect_speech(first_chunk): the chunk is not speech -> None; else
\* "listening", chunks = [first_chunk], speech_ms = one chunk.
collect_speech_first ==
    /\ cs_pc \in {"none", "done"} /\ running
    /\ \E is_speech \in BOOLEAN :
         IF is_speech
         THEN /\ pstate' = "listening"
              /\ cs_len' = 1 /\ speech_ms' = chunk_duration_ms
              /\ obs_speech' = 1
              /\ cs_result' = "none" /\ cs_pc' = "loop"
         ELSE /\ pstate' = pstate
              /\ cs_len' = 0 /\ speech_ms' = 0 /\ obs_speech' = 0
              /\ cs_result' = "None" /\ cs_pc' = "done"
    /\ silence_ms' = 0
    /\ UNCHANGED collectFrame

\* _collect_speech(initial_chunks=barge_audio): "listening", the chunks of the
\* barge-in buffer (the required_chunks chunks the monitor confirmed on) all
\* count as speech.
collect_speech_initial ==
    /\ cs_pc \in {"none", "done"} /\ running
    /\ pstate' = "listening"
    /\ cs_len' = required_chunks
    /\ speech_ms' = required_chunks * chunk_duration_ms
    /\ obs_speech' = required_chunks
    /\ silence_ms' = 0
    /\ cs_result' = "none" /\ cs_pc' = "loop"
    /\ UNCHANGED collectFrame

\* The loop: get_audio_chunk times out.
collect_get_none ==
    /\ cs_pc = "loop" /\ running
    /\ silence_ms' = silence_ms + get_timeout_ms
    /\ cs_pc' = IF silence_ms' >= silence_timeout_ms THEN "test" ELSE "loop"
    /\ UNCHANGED <<cs_len, speech_ms, cs_result, obs_speech, pstate>>
    /\ UNCHANGED collectFrame

\* collect_get_chunk without "silence_ms = 0" on a speech chunk.
collect_get_chunk_no_reset ==
    /\ cs_pc = "loop" /\ running /\ cs_len < MaxCollect
    /\ cs_len' = cs_len + 1
    /\ \E is_speech \in BOOLEAN :
         IF is_speech
         THEN /\ silence_ms' = silence_ms
              /\ speech_ms' = speech_ms + chunk_duration_ms
              /\ obs_speech' = obs_speech + 1
              /\ cs_pc' = "loop"
         ELSE /\ silence_ms' = silence_ms + chunk_duration_ms
              /\ speech_ms' = speech_ms /\ obs_speech' = obs_speech
              /\ cs_pc' = IF silence_ms' >= silence_timeout_ms
                          THEN "test" ELSE "loop"
    /\ UNCHANGED <<cs_result, pstate>>
    /\ UNCHANGED collectFrame

\* The loop: a chunk is read, appended and classified by the VAD.
collect_get_chunk ==
    /\ cs_pc = "loop" /\ running /\ cs_len < MaxCollect
    /\ cs_len' = cs_len + 1
    /\ \E is_speech \in BOOLEAN :
         IF is_speech
         THEN /\ silence_ms' = 0
              /\ speech_ms' = speech_ms + chunk_duration_ms
              /\ obs_speech' = obs_speech + 1
              /\ cs_pc' = "loop"
         ELSE /\ silence_ms' = silence_ms + chunk_duration_ms
              /\ speech_ms' = speech_ms /\ obs_speech' = obs_speech
              /\ cs_pc' = IF silence_ms' >= silence_timeout_ms
                          THEN "test" ELSE "loop"
    /\ UNCHANGED <<cs_result, pstate>>
    /\ UNCHANGED collectFrame

\* "while self._running" is false.
collect_loop_exit ==
    /\ cs_pc = "loop" /\ ~running
    /\ cs_pc' = "test"
    /\ UNCHANGED <<cs_len, speech_ms, silence_ms, cs_result, obs_speech, pstate>>
    /\ UNCHANGED collectFrame

\* collect_return comparing the chunks collected, not the speech counted.
collect_return_by_length ==
    /\ cs_pc = "test"
    /\ cs_result' = IF cs_len * chunk_duration_ms < min_speech
                    THEN "None" ELSE "audio"
    /\ cs_pc' = "done"
    /\ UNCHANGED <<cs_len, speech_ms, silence_ms, obs_speech, pstate>>
    /\ UNCHANGED collectFrame

\* if speech_ms < min_speech: return None; else the concatenated chunks.
collect_return ==
    /\ cs_pc = "test"
    /\ cs_result' = IF speech_ms < min_speech THEN "None" ELSE "audio"
    /\ cs_pc' = "done"
    /\ UNCHANGED <<cs_len, speech_ms, silence_ms, obs_speech, pstate>>
    /\ UNCHANGED collectFrame

\* No call of GeminiLLM.generate_stream is running.
tool_rest ==
    /\ gm_pc = "idle" /\ gm_depth = 0 /\ gm_in_tool = FALSE
    /\ gm_chunks = 0 /\ gm_last = "none" /\ gm_rounds = 0
    /\ gm_pending = FALSE

\* No answer is being turned into TTS requests.
speak_rest ==
    /\ sp_sentences = <<>> /\ sp_seg_q = <<>> /\ sp_tts_calls = <<>>
    /\ sp_prod_i = 0 /\ sp_speak_i = 0

\* AudioManager.__init__: gain 1.0, empty window.
agc_rest ==
    /\ agc_gain = 1000 /\ agc_rms_sum = 0 /\ agc_count = 0
    /\ capture_in = 0 /\ rms_in = 0 /\ capture_last = 0
    /\ agc_updates = 0 /\ obs_accepted = 0

\* AudioConfig defaults: input_gain 1.0, auto_gain on.
agc_config == input_gain = 1000 /\ auto_gain = TRUE

\* generate_stream before its first fragment.
seg_rest ==
    /\ sg_buffer = <<>> /\ sg_text = <<>> /\ sg_out = <<>> /\ sg_pc = "feed"
    /\ sg_n = 0 /\ sg_how = "none" /\ sg_calls = FALSE

\* play_audio_stream is not being called.
stream_rest ==
    /\ ps_pc = "idle" /\ ps_chunks = <<>> /\ ps_next = 0 /\ ps_buf = <<>>
    /\ ps_finished = FALSE /\ ps_active = FALSE
    /\ ps_cb = "idle" /\ ps_data = <<>> /\ ps_out = <<>>

\* Nobody is in a playback call.
overlap_rest == ov_pc = [p \in Players |-> "idle"]

\* PipelineBridge.stop() has not been called.
bridge_stop_rest == bs_pc = "idle"

\* WhisperWakeDetector after __init__, load and set_shared_models.
wake_rest ==
    /\ wk_state = "IDLE" /\ wk_len = 0 /\ wk_speech_ms = 0
    /\ wk_silence_ms = 0 /\ wk_enabled = TRUE /\ wk_models = TRUE
    /\ wk_ret = FALSE /\ wk_how = "none" /\ wk_tr_speech = 0 /\ wk_run = 0

\* A bridge whose start() has not been called.
start_rest ==
    /\ st_pc = [p \in Starters |-> "idle"]
    /\ st_how = [p \in Starters |-> "none"]
    /\ st_lock_made = TRUE /\ st_lock = 0
    /\ st_pipeline = 0 /\ st_thread = 0 /\ st_alive = {}
    /\ st_built = {} /\ st_started = {} /\ st_overlap = {}

\* run() at its main loop with the wake word disabled, /wake not called.
active_rest ==
    /\ ac_pc = "loop" /\ ac_active = TRUE /\ ac_enabled = FALSE
    /\ ac_running = TRUE /\ hw_pc = "idle" /\ hw_was = FALSE
    /\ hw_status = "none" /\ ac_seen = FALSE /\ ac_late = 0 /\ ac_utt = 0

late_rest == wake_rest /\ start_rest /\ active_rest

extra_rest == stream_rest /\ overlap_rest /\ bridge_stop_rest /\ late_rest

core_rest ==
    /\ collect_rest /\ min_speech = min_speech_ms
    /\ tool_rest /\ gm_executor = TRUE
    /\ speak_rest /\ agc_rest /\ agc_config /\ seg_rest /\ sg_backend = "ollama"

comp_rest == core_rest /\ extra_rest

\* ------------------------------------- GeminiLLM.generate_stream and tools

\* _execute_and_continue: max_depth
max_depth == 5

toolFrame ==
    <<pipeVars, collectVars, speakVars, agcVars, segVars, gm_executor,
      extraVars>>

\* _execute_and_continue with no depth test.
execute_and_continue_unbounded(depth) ==
    IF ~gm_executor
    THEN /\ gm_pc' = "done"
         /\ UNCHANGED <<gm_depth, gm_in_tool, gm_last, gm_rounds>>
    ELSE /\ gm_rounds' = gm_rounds + 1
         /\ gm_depth' = depth /\ gm_in_tool' = TRUE
         /\ gm_pc' = "stream"
         /\ UNCHANGED gm_last

\* _execute_and_continue(function_calls, depth) up to its request: at
\* max_depth the refusal sentence is yielded and the generator ends; with no
\* executor it ends silently; else every call of the round is executed, the
\* two messages are appended and generate_content_stream is called again.
execute_and_continue(depth) ==
    IF depth >= max_depth
    THEN /\ gm_last' = "refusal" /\ gm_pc' = "done"
         /\ UNCHANGED <<gm_depth, gm_in_tool, gm_rounds>>
    ELSE IF ~gm_executor
    THEN /\ gm_pc' = "done"
         /\ UNCHANGED <<gm_depth, gm_in_tool, gm_last, gm_rounds>>
    ELSE /\ gm_rounds' = gm_rounds + 1
         /\ gm_depth' = depth /\ gm_in_tool' = TRUE
         /\ gm_pc' = "stream"
         /\ UNCHANGED gm_last

\* generate_stream is called: without a client it yields its error sentence
\* and returns; else the first request is made.
gemini_generate_stream ==
    /\ gm_pc \in {"idle", "done"}
    /\ gm_depth' = 0 /\ gm_in_tool' = FALSE /\ gm_pending' = FALSE
    /\ gm_chunks' = 0 /\ gm_rounds' = 0
    /\ \E has_client \in BOOLEAN :
         IF has_client
         THEN gm_pc' = "stream" /\ gm_last' = "none"
         ELSE gm_pc' = "done" /\ gm_last' = "error"
    /\ UNCHANGED toolFrame

\* A chunk with text: _split_and_yield yields a sentence or keeps the buffer.
gemini_chunk_text ==
    /\ gm_pc = "stream" /\ gm_chunks < MaxChunks
    /\ gm_chunks' = gm_chunks + 1
    /\ \E yields \in BOOLEAN : gm_last' = IF yields THEN "text" ELSE gm_last
    /\ UNCHANGED <<gm_pc, gm_depth, gm_in_tool, gm_pending, gm_rounds>>
    /\ UNCHANGED toolFrame

\* A chunk with function calls: generate_stream collects them and goes on
\* reading; _execute_and_continue flushes its buffer and recurses at once.
gemini_chunk_calls ==
    /\ gm_pc = "stream" /\ gm_chunks < MaxChunks
    /\ gm_chunks' = gm_chunks + 1
    /\ IF gm_in_tool
       THEN /\ execute_and_continue(gm_depth + 1)
            /\ UNCHANGED gm_pending
       ELSE /\ gm_pending' = TRUE
            /\ UNCHANGED <<gm_pc, gm_depth, gm_in_tool, gm_last, gm_rounds>>
    /\ UNCHANGED toolFrame

\* The stream read ends, or cancel() was seen: generate_stream hands its
\* pending calls to _execute_and_continue(depth 0) unless cancelled; every
\* other end flushes the buffer, saves the text and trims the history.
gemini_stream_end ==
    /\ gm_pc = "stream"
    /\ \E cancelled \in BOOLEAN :
         IF ~gm_in_tool /\ gm_pending /\ ~cancelled
         THEN execute_and_continue(0)
         ELSE /\ gm_pc' = "done"
              /\ \E remaining \in BOOLEAN :
                   gm_last' = IF remaining THEN "text" ELSE gm_last
              /\ UNCHANGED <<gm_depth, gm_in_tool, gm_rounds>>
    /\ UNCHANGED <<gm_chunks, gm_pending>>
    /\ UNCHANGED toolFrame

\* The stream raises: _handle_error yields its sentence, the generator ends.
gemini_stream_error ==
    /\ gm_pc = "stream"
    /\ gm_last' = "error" /\ gm_pc' = "done"
    /\ UNCHANGED <<gm_depth, gm_in_tool, gm_chunks, gm_pending, gm_rounds>>
    /\ UNCHANGED toolFrame

\* ------------------------------------------ emotion tags and text for TTS

\* A text is a sequence of tokens: a word, a space, an exclamation mark, the
\* tag [joyeux], a raw URL.
Tok == {"w", " ", "!", "[joyeux]", "http://x"}

\* What str.strip() removes.
Whitespace == {" ", "\n"}

RECURSIVE lstrip(_)
lstrip(text) ==
    IF text # <<>> /\ text[1] \in Whitespace THEN lstrip(Tail(text)) ELSE text

RECURSIVE rstrip(_)
rstrip(text) ==
    IF text # <<>> /\ text[Len(text)] \in Whitespace
    THEN rstrip(SubSeq(text, 1, Len(text) - 1)) ELSE text

\* str.strip()
strip(text) == rstrip(lstrip(text))

\* str.count(c)
count(text, c) == Cardinality({i \in 1..Len(text) : text[i] = c})

\* emotion._detect_punctuation_emotion
detect_punctuation_emotion(text) ==
    LET excl == count(strip(text), "!")
        quest == count(strip(text), "?")
    IN IF excl >= 2 THEN "excite"
       ELSE IF excl >= 1 /\ quest >= 1 THEN "surpris"
       ELSE IF excl = 1 THEN "joyeux"
       ELSE "neutre"

\* Positions of the matches of _TAG_RE.
tag_matches(text) == {i \in 1..Len(text) : text[i] = "[joyeux]"}

\* The loop "for i, match in enumerate(matches)" from the match at position m:
\* the text up to the next match (or the end), stripped, is a segment of the
\* tag's emotion unless it is empty.
RECURSIVE tagged_segments(_, _)
tagged_segments(text, m) ==
    LET later == {i \in tag_matches(text) : i > m}
        end == IF later = {} THEN Len(text) + 1
               ELSE CHOOSE i \in later : \A j \in later : i <= j
        segment_text == strip(SubSeq(text, m + 1, end - 1))
        here == IF segment_text # <<>>
                THEN <<[text |-> segment_text, preset |-> "joyeux"]>>
                ELSE <<>>
    IN IF later = {} THEN here ELSE here \o tagged_segments(text, end)

\* emotion.parse_emotion_tags: the preset is named by its emotion.
parse_emotion_tags(text) ==
    LET matches == tag_matches(text) IN
    IF matches = {}
    THEN IF strip(text) # <<>>
         THEN <<[text |-> strip(text),
                 preset |-> detect_punctuation_emotion(text)]>>
         ELSE <<>>
    ELSE LET first == CHOOSE i \in matches : \A j \in matches : i <= j
             prefix == strip(SubSeq(text, 1, first - 1))
         IN (IF prefix # <<>>
             THEN <<[text |-> prefix,
                     preset |-> detect_punctuation_emotion(prefix)]>>
             ELSE <<>>) \o tagged_segments(text, first)

\* text_prep._clean_llm_artifacts: raw URLs are deleted.
clean_llm_artifacts(text) == SelectSeq(text, LAMBDA c : c # "http://x")

\* text_prep._normalize_whitespace: runs of spaces become one space.
RECURSIVE normalize_whitespace(_)
normalize_whitespace(text) ==
    IF Len(text) < 2 THEN text
    ELSE IF text[1] = " " /\ text[2] = " "
    THEN normalize_whitespace(Tail(text))
    ELSE <<text[1]>> \o normalize_whitespace(Tail(text))

\* text_prep.prepare_for_tts
prepare_for_tts(text) ==
    IF strip(text) = <<>> THEN <<>>
    ELSE strip(normalize_whitespace(clean_llm_artifacts(text)))

\* The orchestrator's "for seg in segments" with the test on prepared left out.
RECURSIVE producer_puts_all(_)
producer_puts_all(segments) ==
    IF segments = <<>> THEN <<>>
    ELSE <<<<prepare_for_tts(Head(segments).text), Head(segments).preset>>>>
         \o producer_puts_all(Tail(segments))

\* _respond_streaming, "for seg in segments": prepared = prepare_for_tts(
\* seg.text); if prepared: tts_queue.put((prepared, seg.preset)).
RECURSIVE producer_puts(_)
producer_puts(segments) ==
    IF segments = <<>> THEN <<>>
    ELSE LET prepared == prepare_for_tts(Head(segments).text)
         IN (IF prepared # <<>>
             THEN <<<<prepared, Head(segments).preset>>>> ELSE <<>>)
            \o producer_puts(Tail(segments))

\* _execute_speak, "for seg in parse_emotion_tags(sentence)": prepared =
\* prepare_for_tts(seg.text); if not prepared: continue; synthesize_stream(
\* prepared, emotion_params=seg.preset).
RECURSIVE speak_calls(_)
speak_calls(segments) ==
    IF segments = <<>> THEN <<>>
    ELSE LET prepared == prepare_for_tts(Head(segments).text)
         IN IF ~(prepared # <<>>)
            THEN speak_calls(Tail(segments))
            ELSE <<<<prepared, Head(segments).preset>>>>
                 \o speak_calls(Tail(segments))

speakFrame ==
    <<pipeVars, collectVars, toolVars, agcVars, segVars, sp_sentences,
      extraVars>>

\* One pass of the orchestrator's "for sentence in generate_stream()" with no
\* barge-in: the sentence is parsed and its segments are enqueued.
producer_sentence ==
    /\ sp_prod_i < Len(sp_sentences)
    /\ sp_prod_i' = sp_prod_i + 1
    /\ sp_seg_q' = sp_seg_q
           \o producer_puts(parse_emotion_tags(sp_sentences[sp_prod_i + 1]))
    /\ UNCHANGED <<sp_tts_calls, sp_speak_i>>
    /\ UNCHANGED speakFrame

\* One pass of "for sentence in sentences" of _execute_speak.
speak_sentence ==
    /\ sp_speak_i < Len(sp_sentences)
    /\ sp_speak_i' = sp_speak_i + 1
    /\ sp_tts_calls' = sp_tts_calls
           \o speak_calls(parse_emotion_tags(sp_sentences[sp_speak_i + 1]))
    /\ UNCHANGED <<sp_seg_q, sp_prod_i>>
    /\ UNCHANGED speakFrame

\* ---------------------------------------- AudioManager: capture and AGC

\* self._agc_update_every
agc_update_every == 100
\* The silence level of _apply_agc, 0.002, in units of 0.0001.
agc_silence_rms == 20
\* config.auto_gain_target_rms, 0.08, in units of 0.0001.
auto_gain_target_rms == 800
\* The clamp of the new gain, 1.0 and 20.0, and the level above which the
\* gain is applied, 1.05, in thousandths.
agc_min_gain == 1000
agc_max_gain == 20000
agc_apply_above == 1050
int16_max == 32767

\* Sample magnitudes the driver delivers, and the RMS values of chunks: below
\* the silence level, on it, just above it, speech, and a saturated input.
Samples == {1000, 20000}
RmsChoices == {10, agc_silence_rms, 21, 100, 4000}

\* Values of config.input_gain.
InputGains == {1000, 2000}

Min(a, b) == IF a < b THEN a ELSE b
Max(a, b) == IF a > b THEN a ELSE b

\* np.clip(audio.astype(np.float32) * gain, -32768, 32767).astype(np.int16)
\* on a sample magnitude, gain in thousandths.
apply_gain(sample, gain) == Min((sample * gain) \div 1000, int16_max)

\* _audio_callback: the manual gain.
manual_gain(sample) ==
    IF input_gain # 1000 THEN apply_gain(sample, input_gain) ELSE sample

\* _apply_agc: "if rms >= 0.002".
agc_accepts_silence_level(rms) == rms >= agc_silence_rms

\* _apply_agc: "if rms > 0.002".
agc_accepts(rms) == rms > agc_silence_rms

\* _apply_agc: target_rms / avg_rms with no clamp.
agc_new_gain_unclamped(rms_sum, n) ==
    (auto_gain_target_rms * 1000 * n) \div rms_sum

\* _apply_agc: new_gain = max(1.0, min(target_rms / avg_rms, 20.0)), with
\* avg_rms = rms_sum / n.
agc_new_gain(rms_sum, n) ==
    Max(agc_min_gain,
        Min((auto_gain_target_rms * 1000 * n) \div rms_sum, agc_max_gain))

\* _audio_callback: "if self.config.auto_gain".
agc_runs_while_playing == auto_gain

\* _audio_callback: "if self.config.auto_gain and not self._is_playing".
agc_runs == auto_gain /\ ~is_playing

\* The accepted chunks of one window have the same RMS: what keeps the sums
\* of a window few.
SteadyLevel(rms) ==
    agc_accepts(rms) => (agc_count = 0 \/ agc_rms_sum = rms * agc_count)

agcFrame ==
    <<flagVars, orchVars, llmVars, workVars, stop_playback, play_lock,
      apiVars, monVars, obsVars, collectVars, toolVars, speakVars, segVars,
      input_gain, auto_gain, extraVars>>

\* _apply_agc on a chunk of the given sample and RMS: the window, the
\* periodic update, then the gain applied to the chunk.
apply_agc(audio, rms) ==
    LET rms_sum == IF agc_accepts(rms) THEN agc_rms_sum + rms ELSE agc_rms_sum
        n == IF agc_accepts(rms) THEN agc_count + 1 ELSE agc_count
        update == n >= agc_update_every
        smoothed == IF update /\ rms_sum > agc_silence_rms * n
                    THEN (agc_gain * 7 + agc_new_gain(rms_sum, n) * 3) \div 10
                    ELSE agc_gain
    IN /\ agc_rms_sum' = IF update THEN 0 ELSE rms_sum
       /\ agc_count' = IF update THEN 0 ELSE n
       /\ agc_gain' = smoothed
       /\ agc_updates' = IF update THEN agc_updates + 1 ELSE agc_updates
       /\ obs_accepted' = IF update THEN 0
                          ELSE IF rms > agc_silence_rms THEN obs_accepted + 1
                          ELSE obs_accepted
       /\ capture_last' = IF smoothed > agc_apply_above
                          THEN apply_gain(audio, smoothed) ELSE audio

\* _audio_callback: a chunk arrives from the driver.
audio_callback ==
    /\ agc_updates < MaxUpdates
    /\ \E sample \in Samples, rms \in RmsChoices :
         /\ SteadyLevel(rms)
         /\ capture_in' = sample /\ rms_in' = rms
         /\ IF agc_runs
            THEN apply_agc(manual_gain(sample), rms)
            ELSE /\ capture_last' = manual_gain(sample)
                 /\ UNCHANGED <<agc_gain, agc_rms_sum, agc_count,
                                agc_updates, obs_accepted>>
    /\ UNCHANGED is_playing
    /\ UNCHANGED agcFrame

\* play_audio / play_audio_stream is entered: self._is_playing = True.
playback_begins ==
    /\ ~is_playing
    /\ is_playing' = TRUE
    /\ UNCHANGED <<agc_gain, agc_rms_sum, agc_count, capture_in, rms_in,
                   capture_last, agc_updates, obs_accepted>>
    /\ UNCHANGED agcFrame

\* Its finally clause: self._is_playing = False.
playback_ends ==
    /\ is_playing
    /\ is_playing' = FALSE
    /\ UNCHANGED <<agc_gain, agc_rms_sum, agc_count, capture_in, rms_in,
                   capture_last, agc_updates, obs_accepted>>
    /\ UNCHANGED agcFrame

\* ------------------------------------------- the sentence segmenter

\* _COMMA_SPLIT_THRESHOLD, and the least index of the separator of an early
\* split.
comma_split_threshold == 60
early_min_index == 20

\* The sentence endings and the separators of an early split; "..." is the
\* one-character ellipsis.  Of the five endings the streams below use the
\* full stop and the newline, the one ending that str.strip() removes.
Endings == {".", "!", "?", "...", "\n"}
Separators == {",", ";"}

\* Text fragments of a stream: runs of 19 and of 20 letters, a separator, a
\* full stop, a space and a newline.
Letters(n) == [i \in 1..n |-> "a"]
Fragments == {Letters(early_min_index - 1), Letters(early_min_index),
              <<",">>, <<".">>, <<" ">>, <<"\n">>}

\* max(buffer.rfind(c) for c in chars): the index, from 0, of the last
\* character of buffer that is in chars, -1 when there is none.
RECURSIVE rfind(_, _)
rfind(buffer, chars) ==
    IF buffer = <<>> THEN -1
    ELSE IF buffer[Len(buffer)] \in chars THEN Len(buffer) - 1
    ELSE rfind(SubSeq(buffer, 1, Len(buffer) - 1), chars)

\* buffer[:split] and buffer[split:]
upto(buffer, split) == SubSeq(buffer, 1, split)
from(buffer, split) == SubSeq(buffer, split + 1, Len(buffer))

\* GeminiLLM._split_at_last_sentence: <<sentence, remaining>>
split_at_last_sentence(buffer) ==
    LET last_idx == rfind(buffer, Endings)
        split == last_idx + 1
    IN  IF last_idx < 0 THEN <<(<<>>), buffer>>
        ELSE <<strip(upto(buffer, split)), from(buffer, split)>>

\* GeminiLLM._split_early: <<segment, remaining>>
split_early(buffer) ==
    LET last_comma == rfind(buffer, Separators)
        split == last_comma + 1
    IN  IF Len(buffer) < comma_split_threshold THEN <<(<<>>), buffer>>
        ELSE IF last_comma < early_min_index THEN <<(<<>>), buffer>>
        ELSE <<strip(upto(buffer, split)), from(buffer, split)>>

\* GeminiLLM._split_and_yield: the segment yielded (empty for None), the new
\* buffer, and which split produced the segment.
split_and_yield(buffer) ==
    LET s == split_at_last_sentence(buffer)
        e == split_early(buffer)
    IN  IF s[1] # <<>> THEN [seg |-> s[1], rest |-> s[2], how |-> "sentence"]
        ELSE IF e[1] # <<>> THEN [seg |-> e[1], rest |-> e[2], how |-> "early"]
        ELSE [seg |-> <<>>, rest |-> buffer, how |-> "none"]

\* The segmenter inlined in OllamaLLM.generate_stream, in the same shape.
ollama_split(buffer) ==
    LET last_idx == rfind(buffer, Endings)
        split_at == last_idx + 1
        sentence == strip(upto(buffer, split_at))
        last_comma == rfind(buffer, Separators)
        segment == strip(upto(buffer, last_comma + 1))
    IN  IF last_idx >= 0
        THEN [seg |-> sentence, rest |-> from(buffer, split_at),
              how |-> IF sentence # <<>> THEN "sentence" ELSE "none"]
        ELSE IF Len(buffer) >= comma_split_threshold
                /\ last_comma >= early_min_index
        THEN [seg |-> segment, rest |-> from(buffer, last_comma + 1),
              how |-> IF segment # <<>> THEN "early" ELSE "none"]
        ELSE [seg |-> <<>>, rest |-> buffer, how |-> "none"]

segment_of(backend, buffer) ==
    IF backend = "gemini" THEN split_and_yield(buffer)
                          ELSE ollama_split(buffer)

\* What a step of the segmenter leaves alone.
segFrame == <<pipeVars, collectVars, toolVars, speakVars, agcVars, extraVars>>

\* The body of the stream loop for a text fragment: full_text += text,
\* buffer += text, split, yield.
stream_text ==
    /\ sg_pc = "feed" /\ sg_n < MaxFragments
    /\ \E text \in Fragments :
         LET r == segment_of(sg_backend, sg_buffer \o text)
         IN  /\ sg_text' = sg_text \o text
             /\ sg_buffer' = r.rest
             /\ sg_out' = IF r.seg # <<>> THEN Append(sg_out, r.seg)
                                           ELSE sg_out
             /\ sg_how' = r.how
    /\ sg_n' = sg_n + 1
    /\ UNCHANGED <<sg_pc, sg_backend, sg_calls>>
    /\ UNCHANGED segFrame

\* GeminiLLM.generate_stream: a chunk that carries function calls.
stream_function_calls ==
    /\ sg_pc = "feed" /\ sg_backend = "gemini" /\ ~sg_calls
    /\ sg_calls' = TRUE
    /\ UNCHANGED <<sg_buffer, sg_text, sg_out, sg_pc, sg_backend, sg_n,
                   sg_how>>
    /\ UNCHANGED segFrame

\* The stream is exhausted and nothing is pending: the rest of the buffer is
\* flushed.
stream_flush ==
    /\ sg_pc = "feed" /\ ~sg_calls
    /\ sg_out' = IF strip(sg_buffer) # <<>>
                 THEN Append(sg_out, strip(sg_buffer)) ELSE sg_out
    /\ sg_pc' = "done"
    /\ UNCHANGED <<sg_buffer, sg_text, sg_backend, sg_n, sg_how, sg_calls>>
    /\ UNCHANGED segFrame

\* GeminiLLM.generate_stream, the stream is exhausted with function calls
\* pending: the text is saved to the history and _execute_and_continue takes
\* over with a buffer of its own; the function returns after it.
stream_end_calls ==
    /\ sg_pc = "feed" /\ sg_calls
    /\ sg_pc' = "calls"
    /\ UNCHANGED <<sg_buffer, sg_text, sg_out, sg_backend, sg_n, sg_how,
                   sg_calls>>
    /\ UNCHANGED segFrame

\* ------------------------------------- AudioManager.play_audio_stream

\* queue.Queue(maxsize=32)
buf_maxsize == 32

\* A chunk of the iterator as the blocks the device takes it in: block k of
\* chunk i is <<i, k>>.  A chunk of one block is at most "frames" samples
\* long, a longer one leaves data[frames:] behind.
chunk_blocks(i, n) == [k \in 1..n |-> <<i, k>>]

\* The iterators followed: every short one, and two that overfill the
\* buffer, with their long chunk first or last.
StreamInputs ==
    UNION {[1..n -> 1..MaxBlocks] : n \in 1..MaxShortStream}
    \cup {[i \in 1..(buf_maxsize + MaxOverfill) |->
              IF i = long THEN MaxBlocks ELSE 1] :
          long \in {1, buf_maxsize + MaxOverfill}}

\* What a step of play_audio_stream leaves alone.
streamFrame ==
    <<flagVars, orchVars, llmVars, workVars, apiVars, monVars, obsVars,
      coreVars, overlapVars, bridgeStopVars, lateVars>>

\* play_audio_stream up to stream.start(): _stop_playback.clear(),
\* _is_playing = True, the lock, an empty buf.
play_audio_stream ==
    /\ ps_pc = "idle" /\ play_lock = 0
    /\ stop_playback' = FALSE /\ is_playing' = TRUE /\ play_lock' = 1
    /\ ps_active' = TRUE
    /\ ps_pc' = "feed"
    /\ UNCHANGED <<ps_chunks, ps_next, ps_buf, ps_finished, ps_cb, ps_data,
                   ps_out>>
    /\ UNCHANGED streamFrame

\* "for chunk in chunks": buf.put(chunk, timeout=0.5) finds a free slot; on
\* queue.Full the loop tries again.
stream_put ==
    /\ ps_pc = "feed" /\ ~stop_playback
    /\ ps_next < Len(ps_chunks)
    /\ Len(ps_buf) < buf_maxsize
    /\ ps_buf' = Append(ps_buf,
                        chunk_blocks(ps_next + 1, ps_chunks[ps_next + 1]))
    /\ ps_next' = ps_next + 1
    /\ UNCHANGED <<ps_pc, ps_chunks, ps_finished, ps_active, ps_cb, ps_data,
                   ps_out>>
    /\ UNCHANGED playVars
    /\ UNCHANGED streamFrame

\* The iterator is exhausted: finished.set().
stream_exhausted ==
    /\ ps_pc = "feed" /\ ps_next = Len(ps_chunks)
    /\ ps_finished' = TRUE /\ ps_pc' = "drain"
    /\ UNCHANGED <<ps_chunks, ps_next, ps_buf, ps_active, ps_cb, ps_data,
                   ps_out>>
    /\ UNCHANGED playVars
    /\ UNCHANGED streamFrame

\* _stop_playback is seen set, by the loop or by its wait for a slot: break,
\* finished.set().
stream_break ==
    /\ ps_pc = "feed" /\ ps_next < Len(ps_chunks) /\ stop_playback
    /\ ps_finished' = TRUE /\ ps_pc' = "drain"
    /\ UNCHANGED <<ps_chunks, ps_next, ps_buf, ps_active, ps_cb, ps_data,
                   ps_out>>
    /\ UNCHANGED playVars
    /\ UNCHANGED streamFrame

\* The drain loop ends (the stream is no longer active, or _stop_playback):
\* stream.stop() waits for a running callback, stream.close(), the lock is
\* released and the finally clause clears _is_playing.
stream_return ==
    /\ ps_pc = "drain"
    /\ ~ps_active \/ stop_playback
    /\ ps_cb = "idle"
    /\ ps_active' = FALSE
    /\ play_lock' = 0 /\ is_playing' = FALSE
    /\ ps_pc' = "done"
    /\ UNCHANGED <<ps_chunks, ps_next, ps_buf, ps_finished, ps_cb, ps_data,
                   ps_out>>
    /\ UNCHANGED stop_playback
    /\ UNCHANGED streamFrame

\* _callback: buf.put(data[frames:]).
requeue(buf, data) == Append(buf, data)

\* _callback, buf holds an item: the first block goes to outdata; what is
\* left of the item is to be put back.
callback_get ==
    /\ ps_active /\ ps_cb = "idle" /\ ps_buf # <<>>
    /\ LET data == Head(ps_buf)
       IN  /\ ps_out' = Append(ps_out, data[1])
           /\ ps_buf' = Tail(ps_buf)
           /\ IF Len(data) > 1
              THEN ps_cb' = "put" /\ ps_data' = Tail(data)
              ELSE ps_cb' = "idle" /\ ps_data' = <<>>
    /\ UNCHANGED <<ps_pc, ps_chunks, ps_next, ps_finished, ps_active>>
    /\ UNCHANGED playVars
    /\ UNCHANGED streamFrame

\* _callback, second half: buf.put(data[frames:]) blocks while buf is full.
callback_put ==
    /\ ps_cb = "put" /\ Len(ps_buf) < buf_maxsize
    /\ ps_buf' = requeue(ps_buf, ps_data)
    /\ ps_cb' = "idle" /\ ps_data' = <<>>
    /\ UNCHANGED <<ps_pc, ps_chunks, ps_next, ps_finished, ps_active, ps_out>>
    /\ UNCHANGED playVars
    /\ UNCHANGED streamFrame

\* _callback, buf is empty and finished is set: CallbackStop ends the stream.
\* (With finished not set it writes silence and returns.)
callback_stop ==
    /\ ps_active /\ ps_cb = "idle" /\ ps_buf = <<>> /\ ps_finished
    /\ ps_active' = FALSE
    /\ UNCHANGED <<ps_pc, ps_chunks, ps_next, ps_buf, ps_finished, ps_cb,
                   ps_data, ps_out>>
    /\ UNCHANGED playVars
    /\ UNCHANGED streamFrame

\* AudioManager.stop_playback() from another thread during the call.
stop_playback_called ==
    /\ ps_pc \in {"feed", "drain"} /\ ~stop_playback
    /\ stop_playback' = TRUE
    /\ UNCHANGED <<is_playing, play_lock>>
    /\ UNCHANGED streamVars
    /\ UNCHANGED streamFrame

\* ------------------------- play_audio / play_audio_stream, calls that overlap

\* What a step of a playback call leaves alone.
overlapFrame ==
    <<flagVars, orchVars, llmVars, workVars, apiVars, monVars, obsVars,
      coreVars, streamVars, bridgeStopVars, lateVars>>

\* play_audio or play_audio_stream is entered by thread p:
\* _stop_playback.clear(), _is_playing = True, then it waits for the lock.
play_enter(p) ==
    /\ ov_pc[p] = "idle"
    /\ stop_playback' = FALSE /\ is_playing' = TRUE
    /\ ov_pc' = [ov_pc EXCEPT ![p] = "wait"]
    /\ UNCHANGED play_lock
    /\ UNCHANGED overlapFrame

\* "with self._play_lock": p has the lock and feeds the device.
play_acquire(p) ==
    /\ ov_pc[p] = "wait" /\ play_lock = 0
    /\ play_lock' = p
    /\ ov_pc' = [ov_pc EXCEPT ![p] = "feeding"]
    /\ UNCHANGED <<stop_playback, is_playing>>
    /\ UNCHANGED overlapFrame

\* The playback of p is over: the with block is left.
play_release(p) ==
    /\ ov_pc[p] = "feeding"
    /\ play_lock' = 0
    /\ ov_pc' = [ov_pc EXCEPT ![p] = "finally"]
    /\ UNCHANGED <<stop_playback, is_playing>>
    /\ UNCHANGED overlapFrame

\* The finally clause of p: _is_playing = False.
play_finally(p) ==
    /\ ov_pc[p] = "finally"
    /\ is_playing' = FALSE
    /\ ov_pc' = [ov_pc EXCEPT ![p] = "done"]
    /\ UNCHANGED <<stop_playback, play_lock>>
    /\ UNCHANGED overlapFrame

\* ------------------------------------------------- WhisperWakeDetector
SILENCE_TIMEOUT_MS == 500
MIN_SPEECH_MS == 200
MAX_SPEECH_MS == 4000
CHUNK_MS == 32

\* What a call of the wake detector leaves alone.
wakeFrame ==
    <<pipeVars, coreVars, streamVars, overlapVars, bridgeStopVars, startVars,
      activeVars>>

\* set_shared_models: the pipeline injects the transcriber and the VAD.
set_shared_models ==
    /\ ~wk_models
    /\ wk_models' = TRUE
    /\ UNCHANGED <<wk_state, wk_len, wk_speech_ms, wk_silence_ms, wk_enabled,
                   wk_ret, wk_how, wk_tr_speech, wk_run>>
    /\ UNCHANGED wakeFrame

\* detect with the wake word disabled or the models missing: False at once.
detect_off ==
    /\ ~wk_enabled \/ ~wk_models
    /\ wk_ret' = FALSE /\ wk_how' = "off" /\ wk_tr_speech' = 0
    /\ UNCHANGED <<wk_state, wk_len, wk_speech_ms, wk_silence_ms, wk_enabled,
                   wk_models, wk_run>>
    /\ UNCHANGED wakeFrame

\* detect in IDLE: a speech chunk starts a collection, any other is dropped.
detect_idle ==
    /\ wk_enabled /\ wk_models /\ wk_state = "IDLE"
    /\ \E is_speech \in BOOLEAN :
         IF is_speech
         THEN /\ wk_state' = "COLLECTING" /\ wk_len' = 1
              /\ wk_speech_ms' = CHUNK_MS /\ wk_silence_ms' = 0
              /\ wk_how' = "start" /\ wk_run' = 1
         ELSE /\ UNCHANGED <<wk_state, wk_len, wk_speech_ms, wk_silence_ms>>
              /\ wk_how' = "idle" /\ wk_run' = 0
    /\ wk_ret' = FALSE /\ wk_tr_speech' = 0
    /\ UNCHANGED <<wk_enabled, wk_models>>
    /\ UNCHANGED wakeFrame

\* The counters of a collection after one more chunk.
wake_count(is_speech) ==
    [len |-> wk_len + 1,
     speech |-> IF is_speech THEN wk_speech_ms + CHUNK_MS ELSE wk_speech_ms,
     silence |-> IF is_speech THEN 0 ELSE wk_silence_ms + CHUNK_MS]

\* should_transcribe without the bound on the collected length.
should_transcribe_silence_only(c) == c.silence >= SILENCE_TIMEOUT_MS

\* The collection ends on 500 ms of silence or 4000 ms of audio.
should_transcribe(c) ==
    c.silence >= SILENCE_TIMEOUT_MS \/ c.len * CHUNK_MS >= MAX_SPEECH_MS

\* detect in COLLECTING: the chunk is appended and counted; at the end of the
\* collection the audio is transcribed if it holds enough speech (match is
\* the outcome of _transcribe_and_match) and the collection is reset.
detect_collecting ==
    /\ wk_enabled /\ wk_models /\ wk_state = "COLLECTING"
    /\ \E is_speech, match \in BOOLEAN :
         LET c == wake_count(is_speech) IN
         IF should_transcribe(c)
         THEN /\ wk_state' = "IDLE" /\ wk_len' = 0
              /\ wk_speech_ms' = 0 /\ wk_silence_ms' = 0
              /\ wk_run' = 0
              /\ IF c.speech >= MIN_SPEECH_MS
                 THEN /\ wk_ret' = match
                      /\ wk_how' = IF match THEN "match" ELSE "nomatch"
                      /\ wk_tr_speech' = c.speech
                 ELSE /\ wk_ret' = FALSE /\ wk_how' = "noise"
                      /\ wk_tr_speech' = 0
         ELSE /\ wk_state' = "COLLECTING" /\ wk_len' = c.len
              /\ wk_speech_ms' = c.speech /\ wk_silence_ms' = c.silence
              /\ wk_run' = wk_run + 1
              /\ wk_ret' = FALSE /\ wk_how' = "collect"
              /\ wk_tr_speech' = 0
    /\ UNCHANGED <<wk_enabled, wk_models>>
    /\ UNCHANGED wakeFrame

\* ------------------------------------------------- PipelineBridge.start
\* The calls run as coroutines of one event loop: a call runs alone from one
\* await to the next.

startFrame ==
    <<pipeVars, coreVars, streamVars, overlapVars, bridgeStopVars, wakeVars,
      activeVars>>

\* is_running that never sees the thread.
is_running_never == FALSE

\* is_running: the thread exists and is alive.
is_running == st_thread # 0 /\ st_thread \in st_alive

\* _start_lock.locked()
locked == st_lock # 0

\* The calls that are suspended at an await.
InStart == {q \in Starters : st_pc[q] \notin {"idle", "done"}}

\* The call p begins while the calls of InStart are suspended.
overlaps(p) == st_overlap \cup {{p, q} : q \in InStart}

\* start() that returns at once: the pipeline runs, or the lock is held.
start_returns(p) ==
    /\ st_pc[p] = "idle"
    /\ is_running \/ locked
    /\ st_pc' = [st_pc EXCEPT ![p] = "done"]
    /\ st_how' = [st_how EXCEPT ![p] = IF is_running THEN "running"
                                       ELSE "locked"]
    /\ st_lock_made' = (st_lock_made \/ ~is_running)
    /\ st_overlap' = overlaps(p)
    /\ UNCHANGED <<st_lock, st_pipeline, st_thread, st_alive, st_built,
                   st_started>>
    /\ UNCHANGED startFrame

\* start() up to its first await: the lock is made if need be and taken,
\* is_running is checked again, the configuration is loaded and the
\* AethonPipeline constructed; ok is false when one of the two raises.
start_enter(p) ==
    /\ st_pc[p] = "idle"
    /\ ~is_running /\ ~locked
    /\ st_lock_made' = TRUE
    /\ st_lock' = p
    /\ st_overlap' = overlaps(p)
    /\ \E ok \in BOOLEAN :
         IF ok
         THEN /\ st_pipeline' = p
              /\ st_built' = st_built \cup {p}
              /\ st_pc' = [st_pc EXCEPT ![p] = "set_loading"]
         ELSE /\ UNCHANGED <<st_pipeline, st_built>>
              /\ st_pc' = [st_pc EXCEPT ![p] = "failing"]
    /\ UNCHANGED <<st_how, st_thread, st_alive, st_started>>
    /\ UNCHANGED startFrame

\* "loading" has been broadcast; load_all is handed to the executor.
start_set_loading(p) ==
    /\ st_pc[p] = "set_loading"
    /\ st_pc' = [st_pc EXCEPT ![p] = "load_all"]
    /\ UNCHANGED <<st_how, st_lock_made, st_lock, st_pipeline, st_thread,
                   st_alive, st_built, st_started, st_overlap>>
    /\ UNCHANGED startFrame

\* load_all has ended: the thread is made and started and the lock released,
\* or load_all raised.
start_load_all(p) ==
    /\ st_pc[p] = "load_all"
    /\ \E ok \in BOOLEAN :
         IF ok
         THEN /\ st_thread' = p
              /\ st_alive' = st_alive \cup {p}
              /\ st_started' = st_started \cup {p}
              /\ st_lock' = 0
              /\ st_pc' = [st_pc EXCEPT ![p] = "done"]
              /\ st_how' = [st_how EXCEPT ![p] = "started"]
         ELSE /\ UNCHANGED <<st_thread, st_alive, st_started, st_lock, st_how>>
              /\ st_pc' = [st_pc EXCEPT ![p] = "failing"]
    /\ UNCHANGED <<st_lock_made, st_pipeline, st_built, st_overlap>>
    /\ UNCHANGED startFrame

\* The except clause after "stopped" was broadcast: _pipeline = None, the
\* exception leaves start() and the lock is released.
start_failed(p) ==
    /\ st_pc[p] = "failing"
    /\ st_pipeline' = 0
    /\ st_lock' = 0
    /\ st_pc' = [st_pc EXCEPT ![p] = "done"]
    /\ st_how' = [st_how EXCEPT ![p] = "raised"]
    /\ UNCHANGED <<st_lock_made, st_thread, st_alive, st_built, st_started,
                   st_overlap>>
    /\ UNCHANGED startFrame

\* _run_pipeline returns: the pipeline thread of call t ends.
thread_exit(t) ==
    /\ t \in st_alive
    /\ st_alive' = st_alive \ {t}
    /\ UNCHANGED <<st_pc, st_how, st_lock_made, st_lock, st_pipeline,
                   st_thread, st_built, st_started, st_overlap>>
    /\ UNCHANGED startFrame

\* ------------------------------------------------- the _active event

activeFrame ==
    <<pipeVars, coreVars, streamVars, overlapVars, bridgeStopVars, wakeVars,
      startVars>>

\* run() before its loop: with the wake word disabled _active is set.
run_prologue ==
    /\ ac_pc = "prologue"
    /\ ac_active' = (ac_active \/ ~ac_enabled)
    /\ ac_pc' = "loop"
    /\ UNCHANGED <<ac_enabled, ac_running, hw_pc, hw_was, hw_status, ac_seen,
                   ac_late, ac_utt>>
    /\ UNCHANGED activeFrame

\* while self._running: a chunk is read from the microphone.
run_get_chunk ==
    /\ ac_pc = "loop" /\ ac_running
    /\ ac_pc' = "check"
    /\ UNCHANGED <<ac_active, ac_enabled, ac_running, hw_pc, hw_was,
                   hw_status, ac_seen, ac_late, ac_utt>>
    /\ UNCHANGED activeFrame

\* while self._running: _running was cleared.
run_loop_exit ==
    /\ ac_pc = "loop" /\ ~ac_running
    /\ ac_pc' = "stopped"
    /\ UNCHANGED <<ac_active, ac_enabled, ac_running, hw_pc, hw_was,
                   hw_status, ac_seen, ac_late, ac_utt>>
    /\ UNCHANGED activeFrame

\* if not self._active.is_set(): the chunk goes to the wake detector or to
\* the collection of an utterance.
run_check_active ==
    /\ ac_pc = "check"
    /\ ac_pc' = IF ac_active THEN "collect" ELSE "detect"
    /\ ac_seen' = (ac_seen \/ ac_active)
    /\ UNCHANGED <<ac_active, ac_enabled, ac_running, hw_pc, hw_was,
                   hw_status, ac_late, ac_utt>>
    /\ UNCHANGED activeFrame

\* wake_word.detect(chunk) is called; on a detection _active is set, the
\* detector reset and the activation sound played; then continue.
run_detect ==
    /\ ac_pc = "detect"
    /\ ac_late' = IF ac_active THEN ac_late + 1 ELSE ac_late
    /\ \E detected \in BOOLEAN : ac_active' = (ac_active \/ detected)
    /\ ac_pc' = "loop"
    /\ UNCHANGED <<ac_enabled, ac_running, hw_pc, hw_was, hw_status, ac_seen,
                   ac_utt>>
    /\ UNCHANGED activeFrame

\* run_collect that asks for the wake word again after the utterance.
run_collect_deactivates ==
    /\ ac_pc = "collect" /\ ac_utt < MaxUtterances
    /\ ac_utt' = ac_utt + 1
    /\ ac_active' = ~ac_enabled
    /\ ac_pc' = "loop"
    /\ UNCHANGED <<ac_enabled, ac_running, hw_pc, hw_was, hw_status,
                   ac_seen, ac_late>>
    /\ UNCHANGED activeFrame

\* _collect_speech and the turn that follows it; then the loop goes on.
run_collect ==
    /\ ac_pc = "collect" /\ ac_utt < MaxUtterances
    /\ ac_utt' = ac_utt + 1
    /\ ac_pc' = "loop"
    /\ UNCHANGED <<ac_active, ac_enabled, ac_running, hw_pc, hw_was,
                   hw_status, ac_seen, ac_late>>
    /\ UNCHANGED activeFrame

\* request_stop, seen from run(): _running is cleared.
active_request_stop ==
    /\ ac_running
    /\ ac_running' = FALSE
    /\ UNCHANGED <<ac_pc, ac_active, ac_enabled, hw_pc, hw_was, hw_status,
                   ac_seen, ac_late, ac_utt>>
    /\ UNCHANGED activeFrame

\* _handle_wake with the wake word disabled: "already_active" at once;
\* otherwise was_active = _active.is_set().
handle_wake ==
    /\ hw_pc = "idle"
    /\ IF ~ac_enabled
       THEN /\ hw_status' = "already_active"
            /\ UNCHANGED <<hw_pc, hw_was>>
       ELSE /\ hw_was' = ac_active
            /\ hw_pc' = "set"
            /\ UNCHANGED hw_status
    /\ UNCHANGED <<ac_pc, ac_active, ac_enabled, ac_running, ac_seen,
                   ac_late, ac_utt>>
    /\ UNCHANGED activeFrame

\* _handle_wake: _active.set() and the answer.
handle_wake_set ==
    /\ hw_pc = "set"
    /\ ac_active' = TRUE
    /\ hw_status' = IF hw_was THEN "already_active" ELSE "active"
    /\ hw_pc' = "idle"
    /\ UNCHANGED <<ac_pc, ac_enabled, ac_running, hw_was, ac_seen, ac_late,
                   ac_utt>>
    /\ UNCHANGED activeFrame

\* ------------------------------------------------------------------ Init
\* The pipeline after __init__, load_all and the prologue of run(): _running
\* set, capture started, "idle" emitted.  enable_api_server tells whether
\* load_all started the API server (config.tools.enable_api_server).
init_pipeline(enable_api_server) ==
    /\ running = TRUE /\ stop_event = FALSE
    /\ barge_in = FALSE /\ response_done = FALSE /\ barge_audio = FALSE
    /\ api_alive = enable_api_server
    /\ pc = "loop" /\ kind = "none" /\ turn = 0 /\ emitted = FALSE
    /\ hist_before = <<>> /\ pstate = "idle"
    /\ llm_lock = "free" /\ conversation = <<"system">>
    /\ gst = "none" /\ nsent = 0 /\ cancel_event = FALSE
    /\ current_response = FALSE
    /\ tts_queue = [t \in Turns |-> <<>>]
    /\ audio_queue = [t \in Turns |-> <<>>]
    /\ tts_pc = [t \in Turns |-> "none"] /\ tts_item = [t \in Turns |-> 0]
    /\ aud_pc = [t \in Turns |-> "none"]
    /\ mon_pc = [t \in Turns |-> "none"]
    /\ stop_playback = FALSE /\ is_playing = FALSE /\ play_lock = 0
    /\ cmd_pc = "idle" /\ cmd_status = 0
    /\ speak_pc = "idle" /\ speak_status = 0
    /\ nreq = 0
    /\ consecutive_speech = [t \in Turns |-> 0]
    /\ warmup_counter = [t \in Turns |-> 0]
    /\ was_playing = [t \in Turns |-> FALSE]
    /\ obs_played = [t \in Turns |-> 0]
    /\ obs_streak = [t \in Turns |-> 0]
    /\ last_segment = [t \in Turns |-> 0]

Init == init_pipeline(TRUE) /\ comp_rest

\* --------------------------------------------- orchestrator: run() main loop

\* run(): a text was injected (send_text) -> _handle_text_input up to the lock.
text_input(limit) ==
    /\ pc = "loop" /\ running /\ turn < limit
    /\ pstate' = "thinking" /\ kind' = "text" /\ pc' = "lock"
    /\ UNCHANGED <<turn, emitted, hist_before>>
    /\ UNCHANGED <<flagVars, llmVars, workVars, playVars, apiVars, monVars, obsVars, compVars>>

run_text_input == text_input(MaxTurns)

\* run() -> _collect_speech(first_chunk): the chunk is speech, "listening".
run_collect_speech ==
    /\ pc = "loop" /\ running /\ turn < MaxTurns
    /\ pstate' = "listening" /\ kind' = "voice" /\ pc' = "collect"
    /\ UNCHANGED <<turn, emitted, hist_before>>
    /\ UNCHANGED <<flagVars, llmVars, workVars, playVars, apiVars, monVars, obsVars, compVars>>

\* _collect_speech returns: None when speech_ms < min_speech (run() then
\* continues, or for a continuation falls through to "idle"), else the audio.
collect_speech_return ==
    /\ pc = "collect"
    /\ \E enough \in BOOLEAN :
         IF enough /\ turn < MaxTurns
         THEN pc' = "think" /\ pstate' = pstate /\ kind' = kind
         ELSE /\ pc' = "loop" /\ kind' = "none"
              /\ pstate' = IF kind = "cont" THEN "idle" ELSE pstate
    /\ UNCHANGED <<turn, emitted, hist_before>>
    /\ UNCHANGED <<flagVars, llmVars, workVars, playVars, apiVars, monVars, obsVars, compVars>>

\* run() without line 303: transcription starts with no notification.
run_thinking_no_emit ==
    /\ pc = "think"
    /\ pstate' = pstate /\ pc' = "stt"
    /\ UNCHANGED <<kind, turn, emitted, hist_before>>
    /\ UNCHANGED <<flagVars, llmVars, workVars, playVars, apiVars, monVars, obsVars, compVars>>

\* run(): _emit_state("thinking") before stt.transcribe.
run_thinking ==
    /\ pc = "think"
    /\ pstate' = "thinking" /\ pc' = "stt"
    /\ UNCHANGED <<kind, turn, emitted, hist_before>>
    /\ UNCHANGED <<flagVars, llmVars, workVars, playVars, apiVars, monVars, obsVars, compVars>>

\* run(): stt.transcribe; a text shorter than 2 characters drops the turn.
run_transcribe ==
    /\ pc = "stt"
    /\ \E text_ok \in BOOLEAN :
         IF text_ok THEN pc' = "lock" /\ pstate' = pstate /\ kind' = kind
         ELSE pc' = "loop" /\ pstate' = "idle" /\ kind' = "none"
    /\ UNCHANGED <<turn, emitted, hist_before>>
    /\ UNCHANGED <<flagVars, llmVars, workVars, playVars, apiVars, monVars, obsVars, compVars>>

\* run() / _handle_text_input: with self._llm_lock: llm.add_user_message(text)
run_llm_lock ==
    /\ pc = "lock" /\ llm_lock = "free"
    /\ llm_lock' = "orch"
    /\ hist_before' = conversation
    /\ conversation' = add_user_message(conversation)
    /\ pc' = "init"
    /\ UNCHANGED <<kind, turn, emitted, pstate>>
    /\ UNCHANGED <<gst, nsent, cancel_event, current_response>>
    /\ UNCHANGED <<flagVars, workVars, playVars, apiVars, monVars, obsVars, compVars>>

\* _respond_streaming prologue: the flags and the buffer are cleared, the
\* queues are created, the monitor, TTS and audio threads are started, and
\* llm.generate_stream() creates the generator (its body has not run yet).
respond_streaming_start ==
    /\ pc = "init"
    /\ turn' = turn + 1
    /\ barge_in' = FALSE /\ response_done' = FALSE /\ barge_audio' = FALSE
    /\ emitted' = FALSE
    /\ tts_queue' = [tts_queue EXCEPT ![turn + 1] = <<>>]
    /\ audio_queue' = [audio_queue EXCEPT ![turn + 1] = <<>>]
    /\ mon_pc' = [mon_pc EXCEPT ![turn + 1] = "run"]
    /\ tts_pc' = [tts_pc EXCEPT ![turn + 1] = "get"]
    /\ aud_pc' = [aud_pc EXCEPT ![turn + 1] = "start"]
    /\ gst' = "new" /\ nsent' = 0
    /\ pc' = "gen"
    /\ UNCHANGED <<running, stop_event, api_alive>>
    /\ UNCHANGED <<kind, hist_before, pstate>>
    /\ UNCHANGED <<llm_lock, conversation, cancel_event, current_response>>
    /\ UNCHANGED <<tts_item>>
    /\ UNCHANGED <<playVars, apiVars, monVars, obsVars, compVars>>

\* ------------------------------------ _respond_streaming: the LLM producer

\* A worker is blocked, or inside synthesis/playback: what a timed wait on it
\* can outlast.
TtsBusy(t) ==
    \/ tts_pc[t] = "synth"
    \/ tts_pc[t] = "get" /\ tts_queue[t] = <<>>
    \/ tts_pc[t] \in {"put", "fin"} /\ Len(audio_queue[t]) >= QueueCap
AudBusy(t) ==
    \/ aud_pc[t] = "drain"
    \/ aud_pc[t] = "get" /\ audio_queue[t] = <<>>
    \/ aud_pc[t] = "lock" /\ play_lock # 0

\* for sentence in self.llm.generate_stream(): the generator yields a sentence
\* (generate_stream adds it to _current_response first; on its first resume it
\* clears _cancel_event and _current_response).  The loop body then checks
\* barge_in: set -> llm.cancel() and break, the generator is dropped at its
\* yield; else the sentence is displayed (full_response, on_response),
\* "speaking" is emitted and the segment goes to tts_queue.put.
llm_yield_sentence ==
    /\ pc = "gen" /\ nsent < MaxSentences
    /\ gst = "new" \/ (gst = "stream" /\ ~cancel_event)
    /\ nsent' = nsent + 1
    /\ current_response' = TRUE
    /\ IF barge_in
       THEN /\ cancel_event' = TRUE /\ gst' = "closed"
            /\ pc' = "put_end"
            /\ UNCHANGED <<emitted, pstate>>
       ELSE /\ cancel_event' = (IF gst = "new" THEN FALSE ELSE cancel_event)
            /\ gst' = "stream"
            /\ emitted' = TRUE /\ pstate' = "speaking"
            /\ pc' = "put_seg"
    /\ UNCHANGED <<kind, turn, hist_before, llm_lock, conversation>>
    /\ UNCHANGED <<flagVars, workVars, playVars, apiVars, monVars, obsVars, compVars>>

\* generate_stream yielding its fallback sentence with the loop body leaving
\* full_response as it was.
llm_yield_error_unsaved ==
    /\ pc = "gen" /\ gst = "new"
    /\ current_response' = FALSE
    /\ cancel_event' = FALSE /\ gst' = "error"
    /\ pstate' = "speaking"
    /\ nsent' = nsent + 1
    /\ pc' = "put_seg"
    /\ UNCHANGED <<kind, turn, emitted, hist_before, llm_lock, conversation>>
    /\ UNCHANGED <<flagVars, workVars, playVars, apiVars, monVars, obsVars, compVars>>

\* generate_stream: the request fails (httpx.HTTPError): the generator yields
\* the fallback sentence, which is not added to _current_response, and its
\* next resume returns without touching the history.  gst "failed": the
\* generator of a failed request is finished or dropped.
llm_yield_error ==
    /\ pc = "gen" /\ gst = "new"
    /\ current_response' = FALSE
    /\ IF barge_in
       THEN /\ cancel_event' = TRUE /\ gst' = "failed"
            /\ pc' = "put_end"
            /\ UNCHANGED <<emitted, pstate, nsent>>
       ELSE /\ cancel_event' = FALSE /\ gst' = "error"
            /\ emitted' = TRUE /\ pstate' = "speaking"
            /\ nsent' = nsent + 1
            /\ pc' = "put_seg"
    /\ UNCHANGED <<kind, turn, hist_before, llm_lock, conversation>>
    /\ UNCHANGED <<flagVars, workVars, playVars, apiVars, monVars, obsVars, compVars>>

\* The generator runs to its end (StopIteration): the for loop is left.
llm_stream_end ==
    /\ pc = "gen" /\ gst \in {"new", "stream", "error"}
    /\ conversation' =
         IF gst = "error" THEN conversation
         ELSE generate_stream_end(conversation, nsent > 0,
                                  gst = "stream" /\ cancel_event)
    /\ cancel_event' = IF gst = "new" THEN FALSE ELSE cancel_event
    /\ current_response' = IF gst = "new" THEN FALSE ELSE current_response
    /\ gst' = IF gst = "error" THEN "failed" ELSE "closed"
    /\ pc' = "put_end"
    /\ UNCHANGED <<kind, turn, emitted, hist_before, pstate, llm_lock, nsent>>
    /\ UNCHANGED <<flagVars, workVars, playVars, apiVars, monVars, obsVars, compVars>>

\* tts_queue.put((prepared, seg.preset)): blocks while the queue is full.
producer_put_segment ==
    /\ pc = "put_seg" /\ Len(tts_queue[turn]) < QueueCap
    /\ tts_queue' = [tts_queue EXCEPT ![turn] = Append(@, nsent)]
    /\ pc' = "gen"
    /\ UNCHANGED <<kind, turn, emitted, hist_before, pstate>>
    /\ UNCHANGED <<audio_queue, tts_pc, tts_item, aud_pc, mon_pc>>
    /\ UNCHANGED <<flagVars, llmVars, playVars, apiVars, monVars, obsVars, compVars>>

\* finally: tts_queue.put(_SENTINEL): blocks while the queue is full.
producer_put_sentinel ==
    /\ pc = "put_end" /\ Len(tts_queue[turn]) < QueueCap
    /\ tts_queue' = [tts_queue EXCEPT ![turn] = Append(@, SENTINEL)]
    /\ pc' = "join_tts"
    /\ UNCHANGED <<kind, turn, emitted, hist_before, pstate>>
    /\ UNCHANGED <<audio_queue, tts_pc, tts_item, aud_pc, mon_pc>>
    /\ UNCHANGED <<flagVars, llmVars, playVars, apiVars, monVars, obsVars, compVars>>

\* tts_thread.join(timeout=10): the thread ended, or the timeout expired.
join_tts_thread ==
    /\ pc = "join_tts"
    /\ tts_pc[turn] = "done" \/ TtsBusy(turn)
    /\ pc' = "join_audio"
    /\ UNCHANGED <<kind, turn, emitted, hist_before, pstate>>
    /\ UNCHANGED <<flagVars, llmVars, workVars, playVars, apiVars, monVars, obsVars, compVars>>

\* audio_thread.join(timeout=10)
join_audio_thread ==
    /\ pc = "join_audio"
    /\ aud_pc[turn] = "done" \/ AudBusy(turn)
    /\ pc' = "finish"
    /\ UNCHANGED <<kind, turn, emitted, hist_before, pstate>>
    /\ UNCHANGED <<flagVars, llmVars, workVars, playVars, apiVars, monVars, obsVars, compVars>>

\* self._response_done.set(), then
\* response_to_save = full_response.strip() or llm.get_partial_response();
\* the user turn is popped only if that is empty and barge_in is set.  Then
\* the capture queue is drained, _respond_streaming returns (its generator
\* and queues are dropped with it) and the caller leaves its
\* "with self._llm_lock" block.
respond_finish ==
    /\ pc = "finish"
    /\ response_done' = TRUE
    /\ LET response_to_save == emitted \/ current_response
       IN conversation' =
            IF ~response_to_save /\ barge_in
            THEN pop_last_user_message(conversation) ELSE conversation
    /\ llm_lock' = "free"
    /\ gst' = "none" /\ nsent' = 0
    /\ pc' = "after"
    /\ UNCHANGED <<running, stop_event, barge_in, barge_audio, api_alive>>
    /\ UNCHANGED <<kind, turn, emitted, hist_before, pstate>>
    /\ UNCHANGED <<cancel_event, current_response>>
    /\ UNCHANGED <<workVars, playVars, apiVars, monVars, obsVars, compVars>>

\* After the turn (the locals of _respond_streaming are gone).  A voice turn
\* takes the barge-in buffer and, if it holds audio, collects the continuation
\* (_collect_speech(initial_chunks) emits "listening"); every other path emits
\* "idle" and loops.
run_after_turn ==
    /\ pc = "after"
    /\ IF kind = "voice"
       THEN /\ barge_audio' = FALSE
            /\ IF barge_audio
               THEN pstate' = "listening" /\ kind' = "cont" /\ pc' = "collect"
               ELSE pstate' = "idle" /\ kind' = "none" /\ pc' = "loop"
       ELSE /\ barge_audio' = barge_audio
            /\ pstate' = "idle" /\ kind' = "none" /\ pc' = "loop"
    /\ emitted' = FALSE /\ hist_before' = <<>>
    /\ UNCHANGED <<running, stop_event, barge_in, response_done, api_alive>>
    /\ UNCHANGED <<turn>>
    /\ UNCHANGED <<llmVars, workVars, playVars, apiVars, monVars, obsVars, compVars>>

\* ----------------------------------------- _respond_streaming: _tts_worker

\* tts_queue.get() replaced by a read that leaves the item in the queue.
tts_worker_get_peek(t) ==
    /\ tts_pc[t] = "get" /\ tts_queue[t] # <<>>
    /\ LET item == Head(tts_queue[t])
       IN IF item = SENTINEL \/ barge_in
          THEN tts_pc' = [tts_pc EXCEPT ![t] = "fin"] /\ tts_item' = tts_item
          ELSE /\ tts_pc' = [tts_pc EXCEPT ![t] = "synth"]
               /\ tts_item' = [tts_item EXCEPT ![t] = item]
    /\ UNCHANGED <<tts_queue, audio_queue, aud_pc, mon_pc>>
    /\ UNCHANGED <<flagVars, orchVars, llmVars, playVars, apiVars, monVars, obsVars, compVars>>

\* item = tts_queue.get(); the sentinel or a set barge_in leaves the loop.
tts_worker_get(t) ==
    /\ tts_pc[t] = "get" /\ tts_queue[t] # <<>>
    /\ tts_queue' = [tts_queue EXCEPT ![t] = Tail(@)]
    /\ LET item == Head(tts_queue[t])
       IN IF item = SENTINEL \/ barge_in
          THEN tts_pc' = [tts_pc EXCEPT ![t] = "fin"] /\ tts_item' = tts_item
          ELSE /\ tts_pc' = [tts_pc EXCEPT ![t] = "synth"]
               /\ tts_item' = [tts_item EXCEPT ![t] = item]
    /\ UNCHANGED <<audio_queue, aud_pc, mon_pc>>
    /\ UNCHANGED <<flagVars, orchVars, llmVars, playVars, apiVars, monVars, obsVars, compVars>>

\* The segment is synthesized (tts.synthesize_stream).  An exception leaves
\* the loop; no audio, or barge_in set meanwhile, skips the segment; else the
\* faded segment is ready for audio_queue.put.
tts_worker_synthesize(t) ==
    /\ tts_pc[t] = "synth"
    /\ \E outcome \in {"audio", "empty", "raise"} :
         LET next == IF outcome = "raise" THEN "fin"
                     ELSE IF outcome = "empty" \/ barge_in THEN "get"
                     ELSE "put"
         IN /\ tts_pc' = [tts_pc EXCEPT ![t] = next]
            /\ tts_item' = [tts_item EXCEPT ![t] = IF next = "put" THEN @ ELSE 0]
    /\ UNCHANGED <<tts_queue, audio_queue, aud_pc, mon_pc>>
    /\ UNCHANGED <<flagVars, orchVars, llmVars, playVars, apiVars, monVars, obsVars, compVars>>

\* audio_queue.put(segment_audio): blocks while the queue is full.
tts_worker_put(t) ==
    /\ tts_pc[t] = "put" /\ Len(audio_queue[t]) < QueueCap
    /\ audio_queue' = [audio_queue EXCEPT ![t] = Append(@, tts_item[t])]
    /\ tts_pc' = [tts_pc EXCEPT ![t] = "get"]
    /\ tts_item' = [tts_item EXCEPT ![t] = 0]
    /\ UNCHANGED <<tts_queue, aud_pc, mon_pc>>
    /\ UNCHANGED <<flagVars, orchVars, llmVars, playVars, apiVars, monVars>>
    /\ last_segment' = [last_segment EXCEPT ![t] = tts_item[t]]
    /\ UNCHANGED <<obs_played, obs_streak, compVars>>

\* finally: audio_queue.put(_SENTINEL): blocks while the queue is full; the
\* thread ends after it.
tts_worker_finally(t) ==
    /\ tts_pc[t] = "fin" /\ Len(audio_queue[t]) < QueueCap
    /\ audio_queue' = [audio_queue EXCEPT ![t] = Append(@, SENTINEL)]
    /\ tts_pc' = [tts_pc EXCEPT ![t] = "done"]
    /\ UNCHANGED <<tts_queue, tts_item, aud_pc, mon_pc>>
    /\ UNCHANGED <<flagVars, orchVars, llmVars, playVars, apiVars, monVars, obsVars, compVars>>

\* --------------------------------------- _respond_streaming: _audio_worker

\* _emit_state("speaking"), then play_audio_stream up to its lock:
\* _stop_playback.clear(), _is_playing = True.
audio_worker_start(t) ==
    /\ aud_pc[t] = "start"
    /\ pstate' = "speaking"
    /\ stop_playback' = FALSE /\ is_playing' = TRUE
    /\ aud_pc' = [aud_pc EXCEPT ![t] = "lock"]
    /\ UNCHANGED <<pc, kind, turn, emitted, hist_before, play_lock>>
    /\ UNCHANGED <<tts_queue, audio_queue, tts_pc, tts_item, mon_pc>>
    /\ UNCHANGED <<flagVars, llmVars, apiVars, monVars>>
    /\ obs_played' = IF is_playing THEN obs_played ELSE [u \in Turns |-> 0]
    /\ UNCHANGED <<obs_streak, last_segment, compVars>>

\* The same call with on_state_change = PipelineBridge._bridge_state, first
\* statement: the test `state == self._current_state`.  pstate is the
\* bridge's _current_state.  When the test holds the callback returns and
\* play_audio_stream starts as in audio_worker_start.
bridge_state_check(t) ==
    /\ aud_pc[t] = "start"
    /\ IF pstate = "speaking"
       THEN /\ stop_playback' = FALSE /\ is_playing' = TRUE
            /\ aud_pc' = [aud_pc EXCEPT ![t] = "lock"]
            /\ obs_played' = IF is_playing THEN obs_played ELSE [u \in Turns |-> 0]
       ELSE /\ aud_pc' = [aud_pc EXCEPT ![t] = "emit"]
            /\ UNCHANGED <<stop_playback, is_playing, obs_played>>
    /\ UNCHANGED <<pc, kind, turn, emitted, hist_before, pstate, play_lock>>
    /\ UNCHANGED <<tts_queue, audio_queue, tts_pc, tts_item, mon_pc>>
    /\ UNCHANGED <<flagVars, llmVars, apiVars, monVars>>
    /\ UNCHANGED <<obs_streak, last_segment, compVars>>

\* _bridge_state after a test that failed: self._current_state = state and
\* _safe_broadcast of the state; then play_audio_stream starts.
bridge_state_set(t) ==
    /\ aud_pc[t] = "emit"
    /\ pstate' = "speaking"
    /\ stop_playback' = FALSE /\ is_playing' = TRUE
    /\ aud_pc' = [aud_pc EXCEPT ![t] = "lock"]
    /\ obs_played' = IF is_playing THEN obs_played ELSE [u \in Turns |-> 0]
    /\ UNCHANGED <<pc, kind, turn, emitted, hist_before, play_lock>>
    /\ UNCHANGED <<tts_queue, audio_queue, tts_pc, tts_item, mon_pc>>
    /\ UNCHANGED <<flagVars, llmVars, apiVars, monVars>>
    /\ UNCHANGED <<obs_streak, last_segment, compVars>>

\* with self._play_lock: the output stream is started.
audio_worker_lock(t) ==
    /\ aud_pc[t] = "lock" /\ play_lock = 0
    /\ play_lock' = t
    /\ aud_pc' = [aud_pc EXCEPT ![t] = "get"]
    /\ UNCHANGED <<stop_playback, is_playing>>
    /\ UNCHANGED <<tts_queue, audio_queue, tts_pc, tts_item, mon_pc>>
    /\ UNCHANGED <<flagVars, orchVars, llmVars, apiVars, monVars, obsVars, compVars>>

\* _chunk_gen: audio_queue.get(timeout=2.0) returns an item.  The sentinel or
\* a set barge_in ends the generator, and play_audio_stream leaves its loop
\* when _stop_playback is set; else the chunk is handed to the device buffer
\* and the next one is awaited.
audio_worker_get(t) ==
    /\ aud_pc[t] = "get" /\ audio_queue[t] # <<>>
    /\ audio_queue' = [audio_queue EXCEPT ![t] = Tail(@)]
    /\ LET item == Head(audio_queue[t])
       IN aud_pc' = [aud_pc EXCEPT ![t] =
                       IF item = SENTINEL \/ barge_in \/ stop_playback
                       THEN "drain" ELSE "get"]
    /\ UNCHANGED <<tts_queue, tts_pc, tts_item, mon_pc>>
    /\ UNCHANGED <<flagVars, orchVars, llmVars, playVars, apiVars, monVars, obsVars, compVars>>

\* _chunk_gen: the get timed out (the queue stayed empty for 2 s: the TTS
\* worker is not about to put) and barge_in is set or _running is false: the
\* generator returns.
audio_worker_get_timeout(t) ==
    /\ aud_pc[t] = "get" /\ audio_queue[t] = <<>>
    /\ tts_pc[t] \notin {"put", "fin"}
    /\ barge_in \/ ~running
    /\ aud_pc' = [aud_pc EXCEPT ![t] = "drain"]
    /\ UNCHANGED <<tts_queue, audio_queue, tts_pc, tts_item, mon_pc>>
    /\ UNCHANGED <<flagVars, orchVars, llmVars, playVars, apiVars, monVars, obsVars, compVars>>

\* play_audio_stream: finished.set(), the device drains (or _stop_playback is
\* set), the stream is closed, the lock released; finally _is_playing = False.
audio_worker_finish(t) ==
    /\ aud_pc[t] = "drain"
    /\ play_lock' = 0 /\ is_playing' = FALSE
    /\ aud_pc' = [aud_pc EXCEPT ![t] = "done"]
    /\ UNCHANGED <<stop_playback>>
    /\ UNCHANGED <<tts_queue, audio_queue, tts_pc, tts_item, mon_pc>>
    /\ UNCHANGED <<flagVars, orchVars, llmVars, apiVars, monVars, obsVars, compVars>>

\* ------------------------------------------------------ _monitor_barge_in

\* _monitor_barge_in returns: its locals are gone.
monitor_return(t) ==
    /\ consecutive_speech' = [consecutive_speech EXCEPT ![t] = 0]
    /\ warmup_counter' = [warmup_counter EXCEPT ![t] = 0]
    /\ was_playing' = [was_playing EXCEPT ![t] = FALSE]
    /\ obs_played' = [obs_played EXCEPT ![t] = 0]
    /\ obs_streak' = [obs_streak EXCEPT ![t] = 0]
    /\ UNCHANGED last_segment

\* The loop test "while not barge_in and not response_done" fails: the
\* thread ends.
monitor_exit(t) ==
    /\ mon_pc[t] = "run"
    /\ barge_in \/ response_done
    /\ mon_pc' = [mon_pc EXCEPT ![t] = "done"]
    /\ monitor_return(t)
    /\ UNCHANGED <<tts_queue, audio_queue, tts_pc, tts_item, aud_pc>>
    /\ UNCHANGED <<flagVars, orchVars, llmVars, playVars, apiVars, compVars>>

\* The loop test passes and the pass reaches required_chunks qualifying chunks
\* in a row, each read while is_playing: the buffer is filled, barge_in is
\* set, audio.stop_playback() is called, the thread ends.  (Passes that do
\* not confirm change nothing that another thread reads.)
monitor_confirm(t) ==
    /\ mon_pc[t] = "run" /\ ~barge_in /\ ~response_done
    /\ is_playing
    /\ barge_audio' = TRUE /\ barge_in' = TRUE
    /\ stop_playback' = TRUE
    /\ mon_pc' = [mon_pc EXCEPT ![t] = "done"]
    /\ UNCHANGED <<running, stop_event, response_done, api_alive>>
    /\ UNCHANGED <<is_playing, play_lock>>
    /\ UNCHANGED <<tts_queue, audio_queue, tts_pc, tts_item, aud_pc>>
    /\ UNCHANGED <<orchVars, llmVars, apiVars, monVars, obsVars, compVars>>

\* ------------------------------- _monitor_barge_in, statement by statement



\* The loop test "while not barge_in and not response_done" passes and
\* get_audio_chunk(timeout=0.05) returns None: the counter and speech_chunks
\* are reset.
monitor_read_timeout(t) ==
    /\ mon_pc[t] = "run" /\ ~barge_in /\ ~response_done
    /\ consecutive_speech' = [consecutive_speech EXCEPT ![t] = 0]
    /\ mon_pc' = [mon_pc EXCEPT ![t] = "run"]
    /\ obs_streak' = [obs_streak EXCEPT ![t] = 0]
    /\ UNCHANGED <<warmup_counter, was_playing, obs_played, last_segment>>
    /\ UNCHANGED <<tts_queue, audio_queue, tts_pc, tts_item, aud_pc>>
    /\ UNCHANGED <<flagVars, orchVars, llmVars, playVars, apiVars, compVars>>

\* The loop test passes and get_audio_chunk returns a chunk; qualifies says
\* whether its RMS exceeds min_energy_rms and its VAD score exceeds
\* barge_in_vad_threshold.  The body of the loop up to the confirmation: the
\* is_playing test, the warm-up, the energy and VAD gate, the counter.
monitor_read_chunk(t) ==
    /\ mon_pc[t] = "run" /\ ~barge_in /\ ~response_done
    /\ \E qualifies \in BOOLEAN :
         LET wc == IF was_playing[t]
                   THEN Min(warmup_counter[t] + 1, playback_warmup + 1) ELSE 1
             played == Min(obs_played[t] + 1, playback_warmup + 1)
         IN  IF ~is_playing
             THEN /\ consecutive_speech' = [consecutive_speech EXCEPT ![t] = 0]
                  /\ was_playing' = [was_playing EXCEPT ![t] = FALSE]
                  /\ warmup_counter' = [warmup_counter EXCEPT ![t] = 0]
                  /\ mon_pc' = [mon_pc EXCEPT ![t] = "run"]
                  /\ obs_played' = [obs_played EXCEPT ![t] = 0]
                  /\ obs_streak' = [obs_streak EXCEPT ![t] = 0]
             ELSE /\ was_playing' = [was_playing EXCEPT ![t] = TRUE]
                  /\ warmup_counter' = [warmup_counter EXCEPT ![t] = wc]
                  /\ obs_played' = [obs_played EXCEPT ![t] = played]
                  /\ obs_streak' = [obs_streak EXCEPT ![t] =
                                      IF qualifies /\ played > playback_warmup
                                      THEN Min(@ + 1, required_chunks) ELSE 0]
                  /\ IF wc <= playback_warmup
                     THEN /\ UNCHANGED consecutive_speech
                          /\ mon_pc' = [mon_pc EXCEPT ![t] = "run"]
                     ELSE IF qualifies
                     THEN /\ consecutive_speech' =
                                [consecutive_speech EXCEPT ![t] = @ + 1]
                          /\ mon_pc' = [mon_pc EXCEPT ![t] =
                                IF consecutive_speech[t] + 1 >= required_chunks
                                THEN "snapshot" ELSE "run"]
                     ELSE /\ consecutive_speech' =
                                [consecutive_speech EXCEPT ![t] = 0]
                          /\ mon_pc' = [mon_pc EXCEPT ![t] = "run"]
    /\ UNCHANGED last_segment
    /\ UNCHANGED <<tts_queue, audio_queue, tts_pc, tts_item, aud_pc>>
    /\ UNCHANGED <<flagVars, orchVars, llmVars, playVars, apiVars, compVars>>

\* with self._barge_in_lock: self._barge_in_audio = speech_chunks.copy()
monitor_snapshot(t) ==
    /\ mon_pc[t] = "snapshot"
    /\ barge_audio' = (consecutive_speech[t] > 0)
    /\ mon_pc' = [mon_pc EXCEPT ![t] = "set"]
    /\ UNCHANGED <<running, stop_event, barge_in, response_done, api_alive>>
    /\ UNCHANGED <<tts_queue, audio_queue, tts_pc, tts_item, aud_pc>>
    /\ UNCHANGED <<orchVars, llmVars, playVars, apiVars, monVars, obsVars, compVars>>

\* self._barge_in_detected.set()
monitor_set_flag(t) ==
    /\ mon_pc[t] = "set"
    /\ barge_in' = TRUE
    /\ mon_pc' = [mon_pc EXCEPT ![t] = "stop"]
    /\ UNCHANGED <<running, stop_event, response_done, barge_audio, api_alive>>
    /\ UNCHANGED <<tts_queue, audio_queue, tts_pc, tts_item, aud_pc>>
    /\ UNCHANGED <<orchVars, llmVars, playVars, apiVars, monVars, obsVars, compVars>>

\* self.audio.stop_playback(); return
monitor_stop_playback(t) ==
    /\ mon_pc[t] = "stop"
    /\ stop_playback' = TRUE
    /\ mon_pc' = [mon_pc EXCEPT ![t] = "done"]
    /\ monitor_return(t)
    /\ UNCHANGED <<is_playing, play_lock>>
    /\ UNCHANGED <<tts_queue, audio_queue, tts_pc, tts_item, aud_pc>>
    /\ UNCHANGED <<flagVars, orchVars, llmVars, apiVars, compVars>>

\* ------------------------------------------------------------- shutdown

\* The flags of the pipeline as one value.
Flags ==
    [running |-> running, stop_event |-> stop_event, barge_in |-> barge_in,
     response_done |-> response_done, barge_audio |-> barge_audio,
     api_alive |-> api_alive]

\* request_stop() written as "self._running = not self._running".
request_stop_toggles(f) ==
    [f EXCEPT !.stop_event = TRUE, !.running = ~f.running]

\* What request_stop() does to the flags: _stop_event.set(),
\* _running = False.
request_stop_sets(f) ==
    [f EXCEPT !.stop_event = TRUE, !.running = FALSE]

\* request_stop(): callable from any thread, in any state, any number of
\* times.
request_stop ==
    /\ stop_event' = request_stop_sets(Flags).stop_event
    /\ running' = request_stop_sets(Flags).running
    /\ UNCHANGED <<barge_in, response_done, barge_audio, api_alive>>
    /\ UNCHANGED <<orchVars, llmVars, workVars, playVars, apiVars, monVars, obsVars, compVars>>

\* run(): "while self._running" is false at the top of the loop; the finally
\* clause calls stop().
run_exit ==
    /\ pc = "loop" /\ ~running
    /\ pc' = "stop"
    /\ UNCHANGED <<kind, turn, emitted, hist_before, pstate>>
    /\ UNCHANGED <<flagVars, llmVars, workVars, playVars, apiVars, monVars, obsVars, compVars>>

\* stop(), first part: _stop_event.set(), _running = False,
\* _emit_state("stopped").
stop_emit ==
    /\ pc = "stop"
    /\ stop_event' = TRUE /\ running' = FALSE
    /\ pstate' = "stopped"
    /\ pc' = "stop2"
    /\ UNCHANGED <<barge_in, response_done, barge_audio, api_alive>>
    /\ UNCHANGED <<kind, turn, emitted, hist_before>>
    /\ UNCHANGED <<llmVars, workVars, playVars, apiVars, monVars, obsVars, compVars>>

\* stop() without lines 690-691: the flags are left as the last turn set them.
stop_release_no_flags ==
    /\ pc = "stop2"
    /\ api_alive' = FALSE
    /\ stop_playback' = TRUE
    /\ cancel_event' = TRUE
    /\ pc' = "stopped"
    /\ UNCHANGED <<running, stop_event, barge_in, response_done, barge_audio>>
    /\ UNCHANGED <<kind, turn, emitted, hist_before, pstate>>
    /\ UNCHANGED <<llm_lock, conversation, gst, nsent, current_response>>
    /\ UNCHANGED <<is_playing, play_lock>>
    /\ UNCHANGED <<workVars, apiVars, monVars, obsVars, compVars>>

\* stop(), second part: the API server is stopped, barge_in and response_done
\* are set, audio.cleanup() calls stop_playback(), llm.cleanup() calls cancel().
stop_release ==
    /\ pc = "stop2"
    /\ api_alive' = FALSE
    /\ barge_in' = TRUE /\ response_done' = TRUE
    /\ stop_playback' = TRUE
    /\ cancel_event' = TRUE
    /\ pc' = "stopped"
    /\ UNCHANGED <<running, stop_event, barge_audio>>
    /\ UNCHANGED <<kind, turn, emitted, hist_before, pstate>>
    /\ UNCHANGED <<llm_lock, conversation, gst, nsent, current_response>>
    /\ UNCHANGED <<is_playing, play_lock>>
    /\ UNCHANGED <<workVars, apiVars, monVars, obsVars, compVars>>

\* ------------------------------------------------- PipelineBridge.stop

\* What PipelineBridge.stop leaves alone besides the pipeline.
bridgeStopFrame == <<coreVars, streamVars, overlapVars, lateVars>>

\* PipelineBridge.stop(): pipeline.request_stop(), then thread.join(10.0) is
\* started in the executor.
bridge_stop ==
    /\ bs_pc = "idle"
    /\ stop_event' = request_stop_sets(Flags).stop_event
    /\ running' = request_stop_sets(Flags).running
    /\ bs_pc' = "join"
    /\ UNCHANGED <<barge_in, response_done, barge_audio, api_alive>>
    /\ UNCHANGED <<orchVars, llmVars, workVars, playVars, apiVars, monVars,
                   obsVars>>
    /\ UNCHANGED bridgeStopFrame

\* thread.join(10.0) returns, the pipeline thread ended or not (then the
\* bridge logs and warns); self._pipeline is not None.
bridge_stop_join ==
    /\ bs_pc = "join"
    /\ bs_pc' = "stop"
    /\ UNCHANGED pipeVars
    /\ UNCHANGED bridgeStopFrame

\* pipeline.stop() in the executor thread, first part.
bridge_stop_emit ==
    /\ bs_pc = "stop"
    /\ stop_event' = TRUE /\ running' = FALSE
    /\ pstate' = "stopped"
    /\ bs_pc' = "stop2"
    /\ UNCHANGED <<barge_in, response_done, barge_audio, api_alive>>
    /\ UNCHANGED <<pc, kind, turn, emitted, hist_before>>
    /\ UNCHANGED <<llmVars, workVars, playVars, apiVars, monVars, obsVars>>
    /\ UNCHANGED bridgeStopFrame

\* pipeline.stop() in the executor thread, second part: the API server is
\* stopped, barge_in and response_done are set, audio.cleanup(),
\* llm.cleanup().
bridge_stop_release ==
    /\ bs_pc = "stop2"
    /\ api_alive' = FALSE
    /\ barge_in' = TRUE /\ response_done' = TRUE
    /\ stop_playback' = TRUE
    /\ cancel_event' = TRUE
    /\ bs_pc' = "done"
    /\ UNCHANGED <<running, stop_event, barge_audio>>
    /\ UNCHANGED orchVars
    /\ UNCHANGED <<llm_lock, conversation, gst, nsent, current_response>>
    /\ UNCHANGED <<is_playing, play_lock>>
    /\ UNCHANGED <<workVars, apiVars, monVars, obsVars>>
    /\ UNCHANGED bridgeStopFrame

\* ----------------------------------------- AethonAPIServer: /command, /speak

\* A whole generate_stream call consumed to its end by an HTTP handler, which
\* holds the lock: n sentences, or the request error with its fallback.
generate_stream_all(conv, n, failed) ==
    IF failed THEN conv ELSE generate_stream_end(conv, n > 0, FALSE)

\* _execute_command going on whatever acquire() returned.
execute_command_acquire_unlocked ==
    /\ cmd_pc = "idle" /\ api_alive /\ nreq < MaxRequests
    /\ nreq' = nreq + 1
    /\ llm_lock' = "cmd"
    /\ conversation' = add_user_message(conversation)
    /\ cmd_pc' = "gen" /\ cmd_status' = 0
    /\ UNCHANGED <<gst, nsent, cancel_event, current_response>>
    /\ UNCHANGED <<speak_pc, speak_status>>
    /\ UNCHANGED <<flagVars, orchVars, workVars, playVars, monVars, obsVars, compVars>>

\* _handle_command -> _execute_command: _llm_lock.acquire(timeout=1.0)
\* succeeds, then llm.add_user_message(text).  limit caps the requests the
\* environment sends.
command_acquire(limit) ==
    /\ cmd_pc = "idle" /\ api_alive /\ nreq < limit
    /\ llm_lock = "free"
    /\ nreq' = nreq + 1
    /\ llm_lock' = "cmd"
    /\ conversation' = add_user_message(conversation)
    /\ cmd_pc' = "gen" /\ cmd_status' = 0
    /\ UNCHANGED <<gst, nsent, cancel_event, current_response>>
    /\ UNCHANGED <<speak_pc, speak_status>>
    /\ UNCHANGED <<flagVars, orchVars, workVars, playVars, monVars, obsVars, compVars>>

execute_command_acquire == command_acquire(MaxRequests)

\* _execute_command calling add_user_message before the acquire.
execute_command_busy_adds_turn ==
    /\ cmd_pc = "idle" /\ api_alive /\ nreq < MaxRequests
    /\ llm_lock # "free"
    /\ nreq' = nreq + 1
    /\ conversation' = add_user_message(conversation)
    /\ cmd_pc' = "idle" /\ cmd_status' = 409
    /\ UNCHANGED <<llm_lock, gst, nsent, cancel_event, current_response>>
    /\ UNCHANGED <<speak_pc, speak_status>>
    /\ UNCHANGED <<flagVars, orchVars, workVars, playVars, monVars, obsVars, compVars>>

\* _handle_command -> _execute_command: the acquire times out (the lock was
\* held for 1 s): return None, which _handle_command answers with 409.
execute_command_busy ==
    /\ cmd_pc = "idle" /\ api_alive /\ nreq < MaxRequests
    /\ llm_lock # "free"
    /\ nreq' = nreq + 1
    /\ cmd_pc' = "idle" /\ cmd_status' = 409
    /\ UNCHANGED <<speak_pc, speak_status>>
    /\ UNCHANGED <<flagVars, orchVars, llmVars, workVars, playVars, monVars, obsVars, compVars>>

\* _execute_command: the stream is consumed, the lock released; 200.
execute_command_generate ==
    /\ cmd_pc = "gen"
    /\ \E n \in 0..MaxSentences, failed \in BOOLEAN :
         /\ conversation' = generate_stream_all(conversation, n, failed)
         /\ current_response' = (~failed /\ n > 0)
    /\ cancel_event' = FALSE
    /\ llm_lock' = "free"
    /\ cmd_pc' = "idle" /\ cmd_status' = 200
    /\ UNCHANGED <<gst, nsent>>
    /\ UNCHANGED <<speak_pc, speak_status, nreq>>
    /\ UNCHANGED <<flagVars, orchVars, workVars, playVars, monVars, obsVars, compVars>>

\* _handle_speak -> _execute_speak: the lock is acquired, then
\* llm.add_user_message(text).
execute_speak_acquire ==
    /\ speak_pc = "idle" /\ api_alive /\ nreq < MaxRequests
    /\ llm_lock = "free"
    /\ nreq' = nreq + 1
    /\ llm_lock' = "speak"
    /\ conversation' = add_user_message(conversation)
    /\ speak_pc' = "gen" /\ speak_status' = 0
    /\ UNCHANGED <<gst, nsent, cancel_event, current_response>>
    /\ UNCHANGED <<cmd_pc, cmd_status>>
    /\ UNCHANGED <<flagVars, orchVars, workVars, playVars, monVars, obsVars, compVars>>

\* _handle_speak -> _execute_speak: the acquire times out: None -> 409.
execute_speak_busy ==
    /\ speak_pc = "idle" /\ api_alive /\ nreq < MaxRequests
    /\ llm_lock # "free"
    /\ nreq' = nreq + 1
    /\ speak_pc' = "idle" /\ speak_status' = 409
    /\ UNCHANGED <<cmd_pc, cmd_status>>
    /\ UNCHANGED <<flagVars, orchVars, llmVars, workVars, playVars, monVars, obsVars, compVars>>

\* _execute_speak: the stream is consumed into the list of sentences, every
\* segment is synthesized, the WAV encoded and the lock released; 200 (500
\* when synthesize_stream raises).
execute_speak_generate ==
    /\ speak_pc = "gen"
    /\ \E n \in 0..MaxSentences, failed \in BOOLEAN :
         /\ conversation' = generate_stream_all(conversation, n, failed)
         /\ current_response' = (~failed /\ n > 0)
    /\ cancel_event' = FALSE
    /\ llm_lock' = "free"
    /\ \E raised \in BOOLEAN : speak_status' = IF raised THEN 500 ELSE 200
    /\ speak_pc' = "idle"
    /\ UNCHANGED <<gst, nsent>>
    /\ UNCHANGED <<cmd_pc, cmd_status, nreq>>
    /\ UNCHANGED <<flagVars, orchVars, workVars, playVars, monVars, obsVars, compVars>>

\* ------------------------------------------------------------------ Next

\* The orchestrator thread inside "while self._running".
TurnStep ==
    \/ run_text_input \/ run_collect_speech \/ collect_speech_return
    \/ run_thinking \/ run_transcribe \/ run_llm_lock
    \/ respond_streaming_start
    \/ llm_yield_sentence \/ llm_yield_error \/ llm_stream_end
    \/ producer_put_segment \/ producer_put_sentinel
    \/ join_tts_thread \/ join_audio_thread
    \/ respond_finish \/ run_after_turn

\* The orchestrator thread: the loop, then the finally clause of run().
OrchStep ==
    \/ TurnStep
    \/ run_exit \/ stop_emit \/ stop_release

TtsStep(t) ==
    \/ tts_worker_get(t) \/ tts_worker_synthesize(t)
    \/ tts_worker_put(t) \/ tts_worker_finally(t)

AudStep(t) ==
    \/ audio_worker_start(t) \/ audio_worker_lock(t) \/ audio_worker_get(t)
    \/ audio_worker_get_timeout(t)
    \/ audio_worker_finish(t)

MonStep(t) ==
    \/ monitor_exit(t) \/ monitor_confirm(t)

ApiStep ==
    \/ execute_command_acquire \/ execute_command_busy
    \/ execute_command_generate
    \/ execute_speak_acquire \/ execute_speak_busy
    \/ execute_speak_generate

Next ==
    \/ OrchStep
    \/ \E t \in Turns : TtsStep(t)
    \/ \E t \in Turns : AudStep(t)
    \/ \E t \in Turns : MonStep(t)
    \/ ApiStep
    \/ request_stop

Spec == Init /\ [][Next]_vars

\* The pipeline configured without the API server: the orchestrator, its
\* workers and request_stop.
EngineInit == init_pipeline(FALSE) /\ comp_rest

EngineNext ==
    \/ OrchStep
    \/ \E t \in Turns : TtsStep(t)
    \/ \E t \in Turns : AudStep(t)
    \/ \E t \in Turns : MonStep(t)
    \/ request_stop

EngineSpec == EngineInit /\ [][EngineNext]_vars

\* The same pipeline while nobody asks it to stop.
TurnNext ==
    \/ TurnStep
    \/ \E t \in Turns : TtsStep(t)
    \/ \E t \in Turns : AudStep(t)
    \/ \E t \in Turns : MonStep(t)

TurnSpec == EngineInit /\ [][TurnNext]_vars

\* Every thread that can take a step eventually takes one (the scheduler is
\* fair to the orchestrator and to each worker thread; timed waits expire).
\* Nothing obliges the environment to call request_stop.
LiveSpec ==
    /\ EngineSpec
    /\ WF_vars(OrchStep)
    /\ \A t \in Turns : WF_vars(TtsStep(t))
    /\ \A t \in Turns : WF_vars(AudStep(t))
    /\ \A t \in Turns : WF_vars(MonStep(t))

TurnLiveSpec ==
    /\ TurnSpec
    /\ WF_vars(TurnStep)
    /\ \A t \in Turns : WF_vars(TtsStep(t))
    /\ \A t \in Turns : WF_vars(AudStep(t))
    /\ \A t \in Turns : WF_vars(MonStep(t))

\* One turn after another with the monitor run statement by statement.
MonDetailStep(t) ==
    \/ monitor_exit(t)
    \/ monitor_read_timeout(t) \/ monitor_read_chunk(t)
    \/ monitor_snapshot(t) \/ monitor_set_flag(t) \/ monitor_stop_playback(t)

DetectNext ==
    \/ TurnStep
    \/ \E t \in Turns : TtsStep(t) \/ AudStep(t) \/ MonDetailStep(t)

DetectSpec == EngineInit /\ [][DetectNext]_vars

\* Text turns whose LLM stream yields no sentence, one more than MaxTurns,
\* with the monitor run statement by statement.
SilentTurnStep ==
    \/ text_input(MaxTurns + 1) \/ run_llm_lock
    \/ respond_streaming_start \/ llm_stream_end \/ producer_put_sentinel
    \/ join_tts_thread \/ join_audio_thread
    \/ respond_finish \/ run_after_turn

SilentNext ==
    \/ SilentTurnStep
    \/ \E t \in Turns :
         \/ tts_worker_get(t) \/ tts_worker_finally(t)
         \/ audio_worker_start(t) \/ audio_worker_lock(t) \/ audio_worker_get(t)
         \/ audio_worker_get_timeout(t) \/ audio_worker_finish(t)
         \/ MonDetailStep(t)

SilentSpec == EngineInit /\ [][SilentNext]_vars

\* The pipeline run by the web server: state notifications go through
\* PipelineBridge._bridge_state, whose test and assignment are two steps in
\* the audio worker thread.
AudBridgeStep(t) ==
    \/ bridge_state_check(t) \/ bridge_state_set(t)
    \/ audio_worker_lock(t) \/ audio_worker_get(t)
    \/ audio_worker_get_timeout(t)
    \/ audio_worker_finish(t)

BridgeNext ==
    \/ TurnStep
    \/ \E t \in Turns : TtsStep(t) \/ AudBridgeStep(t) \/ MonStep(t)

BridgeSpec == EngineInit /\ [][BridgeNext]_vars

\* ---------------------------------------------------------------- claims

\* The orchestrator is inside _respond_streaming.
InEngine == pc \in {"gen", "put_seg", "put_end", "join_tts", "join_audio", "finish"}

\* C1: once barge_in is set while the Response Engine runs, the engine
\* eventually returns to its caller (no role blocks forever on a queue).
C1_BargeInEngineReturns == (barge_in /\ InEngine) ~> ~InEngine

\* C2: read right after a turn, the history ends with an assistant turn if
\* and only if the orchestrator emitted assistant text during that turn.
C2_AssistantIffEmitted ==
    pc = "after" => (LastRole(conversation) = "assistant" <=> emitted)

\* C3: barge_in set in a turn that emitted no assistant text: when
\* _respond_streaming returns, the history equals the history before the turn.
C3_PoppedOnEarlyBargeIn ==
    (pc = "after" /\ barge_in /\ ~emitted) => conversation = hist_before

\* C4: the history never holds two adjacent user turns.
C4_NoOrphanUserTurn ==
    \A i \in 1..(Len(conversation) - 1) :
        ~(conversation[i] = "user" /\ conversation[i + 1] = "user")

\* Who is between its add_user_message and the end of its consumption of
\* generate_stream.
InFlight(who) ==
    CASE who = "orch"  -> pc = "init" \/ InEngine
      [] who = "cmd"   -> cmd_pc = "gen"
      [] who = "speak" -> speak_pc = "gen"

\* C5: at most one of the orchestrator turn, the /command handler and the
\* /speak handler is between add_user_message and the end of its stream, and
\* whoever is holds the LLM mutex.
C5_OneLLMUserAtATime ==
    /\ Cardinality({who \in {"orch", "cmd", "speak"} : InFlight(who)}) <= 1
    /\ \A who \in {"orch", "cmd", "speak"} : InFlight(who) => llm_lock = who

\* The three contend: /command is in flight, the orchestrator waits for the
\* mutex and /speak was refused.
C5_Witness ==
    /\ InFlight("cmd") /\ pc = "lock"
    /\ speak_status = 409 /\ nreq = MaxRequests

\* C6: a request handled while the orchestrator holds the LLM mutex is
\* answered 409 in that step, adds nothing to the history, starts no LLM
\* stream and no synthesis, and changes nothing of the orchestrator's turn.
C6_BusyIs409 ==
    [][(llm_lock = "orch" /\ nreq' = nreq + 1) =>
         /\ \/ cmd_status' = 409 /\ UNCHANGED <<speak_pc, speak_status>>
            \/ speak_status' = 409 /\ UNCHANGED <<cmd_pc, cmd_status>>
         /\ cmd_pc' = "idle" /\ speak_pc' = "idle"
         /\ cmd_status' \in {cmd_status, 409}
         /\ speak_status' \in {speak_status, 409}
         /\ UNCHANGED <<llmVars, orchVars, workVars, playVars, flagVars>>]_vars

\* Both routes were refused during one live turn.
C6_Witness ==
    /\ llm_lock = "orch" /\ InEngine
    /\ cmd_status = 409 /\ speak_status = 409
    /\ conversation = add_user_message(hist_before)

\* C7: when _respond_streaming has returned, the TTS worker and the Playback
\* worker of that turn have terminated.
C7_WorkersJoined ==
    pc = "after" => (tts_pc[turn] = "done" /\ aud_pc[turn] = "done")

\* A thread of turn t is alive.
WorkerAlive(t) ==
    \/ tts_pc[t] \notin {"none", "done"}
    \/ aud_pc[t] \notin {"none", "done"}
    \/ mon_pc[t] \notin {"none", "done"}

\* C8: once request_stop has been called, no thread created by the pipeline
\* core (TTS worker, Playback worker, monitor, API server) is alive.
C8_NoThreadAfterRequestStop ==
    stop_event => (~api_alive /\ \A t \in Turns : ~WorkerAlive(t))

C10_StopReachesStopped == stop_event ~> (pc \in {"stop2", "stopped"})

\* stop() has released everything it owns: the API server is stopped and
\* audio.cleanup(), tts.unload(), wake_word.unload(), memory.cleanup() and
\* llm.cleanup() have run.
resources_released == pc = "stopped" /\ ~api_alive

\* C11: the state "stopped" is notified only after every worker thread (TTS,
\* audio, monitor) and the API server have quit and every external resource
\* has been released.
C11_StoppedAfterRelease ==
    pstate = "stopped" => (resources_released /\ \A t \in Turns : ~WorkerAlive(t))

\* The edges of the state graph of the orchestrator that the pipeline itself
\* can notify (the states Stopped -> Loading -> Idle belong to start-up).
GraphEdges ==
    {<<"idle", "thinking">>, <<"idle", "listening">>, <<"listening", "thinking">>,
     <<"thinking", "speaking">>, <<"speaking", "idle">>}
    \cup {<<s, "stopped">> : s \in {"idle", "listening", "thinking", "speaking"}}

CodeEdges ==
    GraphEdges \cup {<<"thinking", "idle">>, <<"speaking", "listening">>,
                     <<"listening", "idle">>}

C13_ShortUtteranceToIdle ==
    [][/\ (pc = "collect" /\ pc' = "loop") => conversation' = conversation
       /\ (pc = "loop" /\ pstate = "listening" /\ pstate' # pstate)
            => pstate' \in {"idle", "stopped"}]_vars

\* C14: whenever the Response Engine exits with a non-empty barge-in buffer,
\* after a voice turn, an injected-text turn or a continuation turn, the buffer
\* is taken as the prefix of a collection that starts at once: the orchestrator
\* never returns to its loop with the buffer unconsumed, and the buffer is
\* never emptied except by such a collection.
C14_BargeBufferConsumed ==
    [][/\ pc' = "loop" => ~barge_audio'
       /\ (barge_audio /\ ~barge_audio') => (pc' = "collect" /\ kind' = "cont")]_vars

\* The orchestrator step reads the capture queue: drain_capture_queue() in the
\* finally clause of _respond_streaming, get_audio_chunk() in run() before
\* _collect_speech, get_audio_chunk() inside _collect_speech.
OrchReadsCapture ==
    \/ pc = "finish" /\ pc' = "after"
    \/ pc = "loop" /\ pc' = "collect"
    \/ pc = "collect" /\ pc' # "collect"

\* The monitor of turn t is inside its loop around get_audio_chunk().
MonitorInLoop(t) == mon_pc[t] = "run"

\* C15: the capture queue has one consumer at a time: no monitor is inside its
\* read loop when the orchestrator reads or drains the queue, and two monitors
\* are never inside their read loops together.
C15_OneCaptureConsumer ==
    [][/\ OrchReadsCapture => \A t \in Turns : ~MonitorInLoop(t)
       /\ \A t, u \in Turns : (t # u /\ mon_pc'[t] = "run") => mon_pc'[u] # "run"]_vars

\* C16: whenever a monitor sets barge_in, the barge-in buffer already holds the
\* required_chunks or more qualifying chunks that confirmed the interruption,
\* written under _barge_in_lock before the flag; and the monitor invokes
\* stop_playback with the flag set.
C16_BufferBeforeFlag ==
    [][\A t \in Turns :
         /\ (mon_pc[t] = "set" /\ mon_pc'[t] = "stop")
              => (barge_audio /\ consecutive_speech[t] >= required_chunks)
         /\ (mon_pc[t] = "stop" /\ mon_pc'[t] = "done") => barge_in]_vars

\* C17: a monitor sets barge_in only after required_chunks chunks in a row,
\* each read while is_playing held, each past the playback_warmup first chunks
\* of that playback, each above the energy and VAD thresholds; and a read
\* timeout, a chunk read while nothing plays, or a chunk that does not qualify
\* leaves the counter at zero and the candidate list empty: the counter never
\* exceeds the run of such chunks actually read.
C17_ConfirmAfterStreak ==
    [][\A t \in Turns :
         /\ (mon_pc'[t] # mon_pc[t] /\ ~barge_in /\ barge_in')
              => obs_streak[t] >= required_chunks
         /\ consecutive_speech'[t] <= obs_streak'[t]]_vars

Broadcasts(s) ==
    \/ pstate' = s /\ pstate # s
    \/ s = "speaking" /\ \E t \in Turns : aud_pc[t] = "emit" /\ aud_pc'[t] # "emit"

\* C19: the bridge never broadcasts the state it broadcast last, whatever the
\* interleaving of the orchestrator thread and the audio worker thread.
C19_NoRepeatedBroadcast ==
    [][\A s \in {"idle", "listening", "thinking", "speaking", "stopped"} :
         Broadcasts(s) => pstate # s]_vars

\* C20: state notifications have a single writer: every call of
\* on_state_change is made by the orchestrator thread, so no step of a TTS
\* worker, an audio worker, a monitor or an HTTP handler changes the notified
\* state.
C20_SingleWriter ==
    [][pstate' # pstate =>
         /\ tts_pc' = tts_pc /\ aud_pc' = aud_pc /\ mon_pc' = mon_pc
         /\ cmd_pc' = cmd_pc /\ speak_pc' = speak_pc]_vars

\* ------------------------------------------------ history across requests

\* User messages of the history that no assistant message follows.
Unanswered(conv) ==
    Cardinality({i \in 1..Len(conv) :
                   conv[i] = "user" /\ (i = Len(conv) \/ conv[i + 1] = "user")})

\* /command requests one after the other, nothing else running: each adds its
\* user message under the lock and consumes one generate_stream call.
HistoryNext ==
    \/ Unanswered(conversation) < MaxFailed /\ command_acquire(MaxHistory)
    \/ execute_command_generate

HistorySpec == Init /\ [][HistoryNext]_vars

\* A caller has appended its user message and holds the lock: the next thing
\* generate_stream does is send self.conversation to the backend.
RequestInFlight ==
    \/ cmd_pc = "gen"
    \/ speak_pc = "gen"
    \/ pc = "gen" /\ gst = "new"

\* C21: every request sent to the LLM backend carries at most 2 * max_turns
\* (40) non-system messages, whatever turns completed or failed before it.
C21_RequestsTrimmed ==
    RequestInFlight => Len(conversation) - 1 <= 2 * max_turns

CollectInit ==
    /\ init_pipeline(FALSE) /\ collect_rest
    /\ min_speech \in MinSpeechChoices
    /\ tool_rest /\ gm_executor = TRUE
    /\ speak_rest /\ agc_rest /\ agc_config /\ seg_rest /\ sg_backend = "ollama"
    /\ extra_rest

\* Calls of _collect_speech in either mode, one after the other, and
\* request_stop from another thread.
CollectNext ==
    \/ collect_speech_first \/ collect_speech_initial
    \/ collect_get_none \/ collect_get_chunk \/ collect_loop_exit
    \/ collect_return
    \/ request_stop

CollectSpec == CollectInit /\ [][CollectNext]_vars

\* C23: _collect_speech returns an utterance only if the speech time it
\* accumulated (one chunk duration per chunk counted as speech, the chunks of
\* a barge-in buffer included) is at least min_speech_ms, and returns nothing
\* otherwise, in both entry modes.
C23_UtteranceOnlyIfEnoughSpeech ==
    cs_pc = "done" =>
        /\ cs_result \in {"None", "audio"}
        /\ cs_result = "audio"
             <=> obs_speech * chunk_duration_ms >= min_speech

C23_Witness ==
    /\ cs_pc = "done" /\ cs_result = "None"
    /\ obs_speech >= required_chunks /\ cs_len > obs_speech

\* --------------------------------------- Gemini generate_stream alone

ToolInit ==
    /\ init_pipeline(FALSE) /\ collect_rest /\ min_speech = min_speech_ms
    /\ tool_rest /\ gm_executor \in BOOLEAN
    /\ speak_rest /\ agc_rest /\ agc_config /\ seg_rest /\ sg_backend = "ollama"
    /\ extra_rest

ToolNext ==
    \/ gemini_generate_stream
    \/ gemini_chunk_text \/ gemini_chunk_calls
    \/ gemini_stream_end \/ gemini_stream_error

ToolSpec == ToolInit /\ [][ToolNext]_vars

\* C24: within one generate_stream call the tool executor is invoked in at
\* most max_depth (5) nested rounds; a further request makes the stream
\* yield the refusal sentence and end, with no tool executed.
C24_AtMostFiveToolRounds ==
    [][/\ gm_rounds' <= max_depth
       /\ (gm_last' = "refusal" /\ gm_pc = "stream") =>
              /\ gm_rounds = max_depth /\ gm_rounds' = gm_rounds
              /\ gm_pc' = "done"]_vars

C24_Witness ==
    gm_pc = "done" /\ gm_last = "refusal" /\ gm_rounds = max_depth

\* ------------------------------------------ the TTS requests of an answer

\* The sentences generate_stream yields: stripped and not empty.
Sentences ==
    {text \in UNION {[1..n -> Tok] : n \in 1..MaxTokens} : strip(text) = text}

SpeakInit ==
    /\ init_pipeline(FALSE) /\ collect_rest /\ min_speech = min_speech_ms
    /\ tool_rest /\ gm_executor = TRUE
    /\ sp_sentences \in UNION {[1..n -> Sentences] : n \in 1..MaxAnswer}
    /\ sp_seg_q = <<>> /\ sp_tts_calls = <<>>
    /\ sp_prod_i = 0 /\ sp_speak_i = 0
    /\ agc_rest /\ agc_config /\ seg_rest /\ sg_backend = "ollama"
    /\ extra_rest

SpeakNext == producer_sentence \/ speak_sentence

SpeakSpec == SpeakInit /\ [][SpeakNext]_vars

\* C25: for the same LLM sentences, /speak passes to the TTS the same ordered
\* sequence of (prepared text, preset) requests as the orchestrator's
\* producer puts on tts_queue.
C25_SameTtsRequests ==
    sp_prod_i = sp_speak_i => sp_seg_q = sp_tts_calls

C25_Witness ==
    /\ sp_prod_i = MaxAnswer /\ sp_speak_i = MaxAnswer
    /\ Len(sp_tts_calls) = 2
    /\ sp_tts_calls[1][2] # sp_tts_calls[2][2]
    /\ \E i \in 1..MaxAnswer :
         Len(parse_emotion_tags(sp_sentences[i]))
             > Len(speak_calls(parse_emotion_tags(sp_sentences[i])))

\* ------------------------------------------- the capture callback alone

AgcInit ==
    /\ init_pipeline(FALSE) /\ collect_rest /\ min_speech = min_speech_ms
    /\ tool_rest /\ gm_executor = TRUE
    /\ speak_rest
    /\ agc_rest /\ input_gain \in InputGains /\ auto_gain \in BOOLEAN
    /\ seg_rest /\ sg_backend = "ollama"
    /\ extra_rest

AgcNext == audio_callback \/ playback_begins \/ playback_ends

AgcSpec == AgcInit /\ [][AgcNext]_vars

\* C26: after any sequence of capture callbacks the AGC gain is at least 1.0
\* and at most 20.0.
C26_GainInRange ==
    agc_min_gain <= agc_gain /\ agc_gain <= agc_max_gain

C26_Witness ==
    agc_updates = MaxUpdates /\ agc_gain > agc_min_gain

\* C27: a capture callback that runs while is_playing leaves the gain, the
\* RMS sum and the accepted-chunk count as they were and enqueues the chunk
\* with the manual gain only.
C27_AgcSuspendedWhilePlaying ==
    [][(is_playing /\ is_playing') =>
         /\ UNCHANGED <<agc_gain, agc_rms_sum, agc_count>>
         /\ capture_last' = manual_gain(capture_in')]_vars

C27_Witness ==
    /\ is_playing /\ auto_gain /\ agc_gain > agc_apply_above
    /\ input_gain # 1000
    /\ capture_last = manual_gain(capture_in) /\ capture_last < int16_max
    /\ capture_in > 0

SegInit ==
    /\ init_pipeline(TRUE)
    /\ collect_rest /\ min_speech = min_speech_ms
    /\ tool_rest /\ gm_executor = TRUE
    /\ speak_rest /\ agc_rest /\ agc_config
    /\ seg_rest /\ sg_backend \in {"gemini", "ollama"}
    /\ extra_rest

SegNext ==
    \/ stream_text
    \/ stream_function_calls
    \/ stream_flush
    \/ stream_end_calls

SegSpec == SegInit /\ [][SegNext]_vars

\* s, with leading whitespace skipped, starts with seg: what is left of s
\* after seg.
after_segment(s, seg) == from(lstrip(s), Len(seg))
starts_with(s, seg) ==
    /\ Len(lstrip(s)) >= Len(seg)
    /\ upto(lstrip(s), Len(seg)) = seg

\* The segments, in order, are the text with only whitespace removed, and
\* only where two segments meet or at the two ends.
RECURSIVE Reproduces(_, _)
Reproduces(segs, text) ==
    IF segs = <<>> THEN strip(text) = <<>>
    ELSE /\ starts_with(text, Head(segs))
         /\ Reproduces(Tail(segs), after_segment(text, Head(segs)))

\* C29: once a stream has been read to its end without cancellation, every
\* segment yielded holds a character that is not whitespace, and the
\* segments in order reproduce the full text of the stream, each character
\* once, up to the whitespace trimmed where segments meet: the rest of the
\* buffer has been flushed.
C29_SegmentsReproduceText ==
    sg_pc # "feed" =>
        /\ \A i \in 1..Len(sg_out) :
             \E j \in 1..Len(sg_out[i]) : sg_out[i][j] \notin Whitespace
        /\ Reproduces(sg_out, sg_text)

\* The buffer of the fragment just received, before the split.
fed_buffer == sg_buffer \o SubSeq(sg_text', Len(sg_text) + 1, Len(sg_text'))

\* C30: a fragment makes the segmenter split early exactly when the buffer
\* holds no sentence ending, is at least 60 characters long and its last
\* ',' or ';' is at index 20 or later; the cut is just after that separator
\* and the tail stays in the buffer.
C30_EarlySplitCondition ==
    [][sg_n' = sg_n + 1 =>
         /\ sg_how' = "early" <=>
              /\ rfind(fed_buffer, Endings) < 0
              /\ Len(fed_buffer) >= comma_split_threshold
              /\ rfind(fed_buffer, Separators) >= early_min_index
         /\ sg_how' = "early" =>
              LET cut == rfind(fed_buffer, Separators) + 1
              IN  /\ sg_out' = Append(sg_out, strip(upto(fed_buffer, cut)))
                  /\ sg_buffer' = from(fed_buffer, cut)]_vars

\* ------------------------------------------------- request_stop called twice

\* A step of request_stop and of nothing else.
RequestStopStep ==
    /\ Flags' = request_stop_sets(Flags)
    /\ UNCHANGED <<orchVars, llmVars, workVars, playVars, apiVars, monVars,
                   obsVars, compVars>>

\* C31: request_stop is idempotent: in the state a call of request_stop
\* leaves, from whatever state it was made, a second call changes no flag
\* and nothing else, so the pipeline goes on as after one call.
C31_RequestStopIdempotent ==
    [][RequestStopStep => request_stop_sets(Flags') = Flags']_vars

\* request_stop was called in the middle of a turn, before run() has seen it.
C31_Witness ==
    /\ stop_event /\ ~running
    /\ pc \notin {"loop", "stop", "stop2", "stopped"}

\* --------------------------------------------- play_audio_stream alone

StreamInit ==
    /\ init_pipeline(FALSE) /\ core_rest
    /\ ps_pc = "idle" /\ ps_chunks \in StreamInputs /\ ps_next = 0
    /\ ps_buf = <<>> /\ ps_finished = FALSE /\ ps_active = FALSE
    /\ ps_cb = "idle" /\ ps_data = <<>> /\ ps_out = <<>>
    /\ overlap_rest /\ bridge_stop_rest /\ late_rest

\* The calling thread and the device callback, with no stop_playback.
StreamRun ==
    \/ play_audio_stream
    \/ stream_put
    \/ stream_exhausted
    \/ stream_return
    \/ callback_get
    \/ callback_put
    \/ callback_stop

StreamNext ==
    \/ StreamRun
    \/ stream_break
    \/ stop_playback_called

StreamSpec == StreamInit /\ [][StreamNext]_vars

\* Nobody calls stop_playback; the calling thread and the device both get to
\* run.
StreamLiveSpec == StreamInit /\ [][StreamRun]_vars /\ WF_vars(StreamRun)

\* C32: the blocks reach the device in the order of the chunks: no block of a
\* chunk is written after a block of a later chunk, also when a chunk is
\* longer than a device block and later chunks are already in buf.
C32_ChunksPlayedInOrder ==
    \A a, b \in 1..Len(ps_out) : a < b => ps_out[a][1] <= ps_out[b][1]

\* Every block put in buf has been written to the device.
RECURSIVE blocks_in(_)
blocks_in(chunks) ==
    IF chunks = <<>> THEN 0 ELSE Head(chunks) + blocks_in(Tail(chunks))

AllDelivered ==
    /\ ps_buf = <<>> /\ ps_data = <<>>
    /\ Len(ps_out) = blocks_in(SubSeq(ps_chunks, 1, ps_next))

\* C33: with a finite iterator and no stop_playback, play_audio_stream
\* returns in the end, and not before every block placed in buf was written
\* to the device, however the feeding thread and the callback interleave.
C33_StreamReturns ==
    /\ <>(ps_pc = "done")
    /\ [](ps_pc = "done" => AllDelivered)

\* ------------------------------------------------ playback calls that overlap

OverlapInit ==
    /\ init_pipeline(FALSE) /\ core_rest /\ stream_rest /\ bridge_stop_rest
    /\ late_rest
    /\ ov_pc = [p \in Players |-> "idle"]

OverlapNext ==
    \E p \in Players :
        \/ play_enter(p)
        \/ play_acquire(p)
        \/ play_release(p)
        \/ play_finally(p)

OverlapSpec == OverlapInit /\ [][OverlapNext]_vars

\* C36: while a playback call holds the play lock and feeds the device,
\* is_playing is true, also when another call overlaps it.
C36_PlayingWhileFeeding ==
    \A p \in Players : (ov_pc[p] = "feeding" /\ play_lock = p) => is_playing

\* ------------------------------------------------ a TTS failure in a turn

\* The TTS worker of the turn has left its loop while the producer has not
\* yet put the sentinel and no barge-in was detected: synthesize_stream
\* raised.
TtsFailed ==
    /\ pc \in {"gen", "put_seg", "put_end"}
    /\ tts_pc[turn] \in {"fin", "done"}
    /\ ~barge_in

\* C34: when the TTS raises during the synthesis of a segment, the worker
\* forwards the sentinel and, with no barge-in, _respond_streaming still
\* returns and the LLM mutex is released, however many segments the producer
\* still has to enqueue.
C34_TtsFailureEngineReturns ==
    TtsFailed ~> ((~InEngine /\ llm_lock = "free") \/ barge_in)

\* ------------------------------------ stop() from the server during a turn

\* The pipeline thread, its workers, and PipelineBridge.stop() in the
\* server's threads.
StopRaceNext ==
    \/ OrchStep
    \/ \E t \in Turns : TtsStep(t)
    \/ \E t \in Turns : AudStep(t)
    \/ \E t \in Turns : MonStep(t)
    \/ bridge_stop \/ bridge_stop_join
    \/ bridge_stop_emit \/ bridge_stop_release

StopRaceSpec == EngineInit /\ [][StopRaceNext]_vars

\* C35: once stop() has set barge_in and response_done for the shutdown,
\* neither flag is cleared again, also by a turn the orchestrator starts
\* while or after another thread runs stop().
C35_ShutdownSignalKept ==
    (bs_pc = "done" \/ pc = "stopped") => (barge_in /\ response_done)

\* ------------------------------------------ the counters of _collect_speech

\* C37 as stated: in the loop of _collect_speech a chunk adds its duration to
\* exactly one of speech_ms and silence_ms and leaves the other, no other
\* step changes a counter, and the loop is left exactly at the first chunk
\* after which silence_ms >= silence_timeout_ms.
C37_OneCounterPerChunk ==
    [][cs_pc = "loop" =>
         /\ IF cs_len' = cs_len + 1
            THEN \/ /\ speech_ms' = speech_ms + chunk_duration_ms
                    /\ silence_ms' = silence_ms
                 \/ /\ silence_ms' = silence_ms + chunk_duration_ms
                    /\ speech_ms' = speech_ms
            ELSE speech_ms' = speech_ms /\ silence_ms' = silence_ms
         /\ cs_pc' = "test" <=>
              (cs_len' = cs_len + 1 /\ silence_ms' >= silence_timeout_ms)]_vars

\* C37, amended: a speech chunk adds its duration to speech_ms and resets
\* silence_ms; any other chunk adds its duration to silence_ms and leaves
\* speech_ms; a read that times out adds 150 ms to silence_ms; nothing else
\* changes a counter; the loop is left at the first chunk or timeout after
\* which silence_ms >= silence_timeout_ms, and otherwise only when _running
\* is cleared.
C37_CountersFollowVad ==
    [][cs_pc = "loop" =>
         /\ IF cs_len' = cs_len + 1
            THEN \/ /\ speech_ms' = speech_ms + chunk_duration_ms
                    /\ silence_ms' = 0
                 \/ /\ silence_ms' = silence_ms + chunk_duration_ms
                    /\ speech_ms' = speech_ms
            ELSE /\ speech_ms' = speech_ms
                 /\ silence_ms' \in {silence_ms, silence_ms + get_timeout_ms}
         /\ silence_ms' >= silence_timeout_ms => cs_pc' = "test"
         /\ cs_pc' = "test" => (silence_ms' >= silence_timeout_ms \/ ~running)
         /\ silence_ms < silence_timeout_ms]_vars

\* A speech chunk came after silence and reset the counter, with the
\* collection going on.
C37_Witness ==
    /\ cs_pc = "loop" /\ silence_ms = 0
    /\ cs_len > obs_speech /\ obs_speech >= 2

\* ------------------------------------------------- WhisperWakeDetector

\* The detector as constructed, with the wake word enabled or not, before
\* or after set_shared_models.
WakeInit ==
    /\ init_pipeline(FALSE) /\ core_rest
    /\ stream_rest /\ overlap_rest /\ bridge_stop_rest /\ start_rest
    /\ active_rest
    /\ wk_state = "IDLE" /\ wk_len = 0 /\ wk_speech_ms = 0
    /\ wk_silence_ms = 0 /\ wk_enabled \in BOOLEAN /\ wk_models = FALSE
    /\ wk_ret = FALSE /\ wk_how = "none" /\ wk_tr_speech = 0 /\ wk_run = 0

WakeNext ==
    \/ set_shared_models
    \/ detect_off
    \/ detect_idle
    \/ detect_collecting

WakeSpec == WakeInit /\ [][WakeNext]_vars

MaxCollecting == MAX_SPEECH_MS \div CHUNK_MS

\* C38: the detector is IDLE or COLLECTING; a speech chunk in IDLE starts a
\* collection and nothing else does; a collection never holds 500 ms of
\* silence or 4000 ms of audio, so it never lasts more than 125 consecutive
\* chunks; a transcription is attempted only with at least 200 ms of speech;
\* detect returns true only from a matched transcription that ended a
\* collection and left the detector IDLE.
C38_WakeStateMachine ==
    /\ wk_state \in {"IDLE", "COLLECTING"}
    /\ wk_state = "COLLECTING" =>
         /\ wk_silence_ms < SILENCE_TIMEOUT_MS
         /\ wk_len * CHUNK_MS < MAX_SPEECH_MS
         /\ wk_how \in {"start", "collect"}
    /\ wk_how = "start" => (wk_state = "COLLECTING" /\ wk_len = 1)
    /\ wk_run <= MaxCollecting
    /\ wk_how \in {"match", "nomatch"} => wk_tr_speech >= MIN_SPEECH_MS
    /\ wk_ret => (wk_how = "match" /\ wk_state = "IDLE" /\ wk_len = 0)

\* A collection that reached the maximal length was transcribed and matched.
C38_Witness ==
    /\ wk_ret /\ wk_how = "match" /\ wk_state = "IDLE"
    /\ wk_tr_speech >= MAX_SPEECH_MS - SILENCE_TIMEOUT_MS

\* ------------------------------------------------- PipelineBridge.start

\* A bridge as constructed, before or after set_loop made the lock.
StartInit ==
    /\ init_pipeline(FALSE) /\ core_rest
    /\ stream_rest /\ overlap_rest /\ bridge_stop_rest /\ wake_rest
    /\ active_rest
    /\ st_pc = [p \in Starters |-> "idle"]
    /\ st_how = [p \in Starters |-> "none"]
    /\ st_lock_made \in BOOLEAN /\ st_lock = 0
    /\ st_pipeline = 0 /\ st_thread = 0 /\ st_alive = {}
    /\ st_built = {} /\ st_started = {} /\ st_overlap = {}

StartNext ==
    \E p \in Starters :
        \/ start_returns(p)
        \/ start_enter(p)
        \/ start_set_loading(p)
        \/ start_load_all(p)
        \/ start_failed(p)
        \/ thread_exit(p)

StartSpec == StartInit /\ [][StartNext]_vars

\* C39: of two calls of start() that overlap in time at most one constructs
\* an AethonPipeline and at most one starts a thread; at any time at most
\* one call is between the construction and its return, and at most one
\* pipeline thread is alive.
C39_OneStartWins ==
    /\ \A p, q \in Starters :
         (p # q /\ {p, q} \in st_overlap) =>
            /\ ~(p \in st_built /\ q \in st_built)
            /\ ~(p \in st_started /\ q \in st_started)
    /\ Cardinality(InStart) <= 1
    /\ Cardinality(st_alive) <= 1

\* One call started the thread, one arrived while the models were loading
\* and one after the thread was started.
C39_Witness ==
    \E p, q, r \in Starters :
        /\ st_how[p] = "started" /\ p \in st_built /\ p \in st_alive
        /\ st_how[q] = "locked" /\ {p, q} \in st_overlap
        /\ st_how[r] = "running"

\* ------------------------------------------------- the _active event

\* run() is entered with _active clear, the wake word enabled or not.
ActiveInit ==
    /\ init_pipeline(TRUE) /\ core_rest
    /\ stream_rest /\ overlap_rest /\ bridge_stop_rest /\ wake_rest
    /\ start_rest
    /\ ac_pc = "prologue" /\ ac_active = FALSE /\ ac_enabled \in BOOLEAN
    /\ ac_running = TRUE /\ hw_pc = "idle" /\ hw_was = FALSE
    /\ hw_status = "none" /\ ac_seen = FALSE /\ ac_late = 0 /\ ac_utt = 0

ActiveNext ==
    \/ run_prologue
    \/ run_get_chunk
    \/ run_loop_exit
    \/ run_check_active
    \/ run_detect
    \/ run_collect
    \/ active_request_stop
    \/ handle_wake
    \/ handle_wake_set

ActiveSpec == ActiveInit /\ [][ActiveNext]_vars

\* C40 as stated: once set, the active flag is never cleared, and the wake
\* detector is never called while the flag is set.
C40_NeverConsultedAgain ==
    [][(ac_active => ac_active') /\ ac_late' = 0]_vars

\* C40, amended: once set, the active flag is never cleared; once run() has
\* found it set, every chunk goes to the collection and none to the wake
\* detector; the detector is called at most once while the flag is set, by
\* the iteration that tested the flag just before /wake set it.
C40_ActiveMonotone ==
    [][/\ ac_active => ac_active'
       /\ ac_seen => (ac_seen' /\ ac_pc' # "detect")
       /\ ac_late' <= 1
       /\ ac_late' > ac_late => (ac_enabled /\ ~ac_seen)]_vars

\* Activated by /wake, the pipeline collected utterance after utterance.
C40_Witness ==
    /\ ac_enabled /\ ac_active /\ ac_seen /\ hw_status = "active"
    /\ ac_utt = MaxUtterances /\ ac_pc = "loop"

====
